---- MODULE Spec2Model ----
(***************************************************************************)
(* The EncryptedMessaging ledger (contracts/EncryptedMessaging.sol, held   *)
(* as src/unnamed/part_001) as a state machine.  Every external call is    *)
(* one transaction: it runs the whole function body on a working copy of   *)
(* the storage and either returns (the working copy becomes the storage,   *)
(* the events are logged) or reverts (the storage stays as it was before   *)
(* the call, nothing is logged).  The caller gets a receipt: the status    *)
(* ("ok" or the revert reason) and the logs of the transaction.            *)
(*                                                                         *)
(* Hashes and signatures are modelled symbolically (perfect cryptography): *)
(* keccak256 of a value is that value under a tag, a signature names its   *)
(* signer and the hash it was made over, and ecrecover returns the signer  *)
(* only for the very hash that was signed.                                 *)
(***************************************************************************)
EXTENDS Integers, Sequences, FiniteSets, TLC

VARIABLES
    nextMessageId,       \* uint256 public nextMessageId
    messages,            \* mapping(uint256 => MessageMeta): the slots written
    inboxIndex,          \* mapping(address => uint256[])
    outboxIndex,         \* mapping(address => uint256[])
    lastNonce,           \* mapping(address => uint128)
    minIntervalSeconds,  \* uint64 public minIntervalSeconds
    lastSentAt,          \* mapping(address => uint64)
    usedIV,              \* mapping(address => mapping(address => mapping(bytes12 => bool)))
    keyRegistry,         \* mapping(address => KeyRecord)
    blockTimestamp,      \* block.timestamp of the block being mined
    eventLog,            \* the MessageSent events of the chain, in order
    receipt,             \* the receipt of the transaction its sender waits on
    localStorage,        \* window.localStorage of the browser the pages run in
    items,               \* the items state of the Inbox page, per connected address
    sendPage,            \* the recipient, message and status state of the Send page
    tab,                 \* the tab state of App: the page that is mounted
    inbox,               \* the run of the effect of the Inbox page that is mounted
    deliveries,          \* how often MessageSent of an id was passed to the handler
    runs                 \* the runs of onSend of the windows showing the Send page

vars == <<nextMessageId, messages, inboxIndex, outboxIndex, lastNonce,
          minIntervalSeconds, lastSentAt, usedIV, keyRegistry,
          blockTimestamp, eventLog, receipt, localStorage, items, sendPage, tab,
          inbox, deliveries, runs>>

ledgerVars == <<nextMessageId, messages, inboxIndex, outboxIndex, lastNonce,
                minIntervalSeconds, lastSentAt, usedIV, keyRegistry, eventLog>>

viewVars == <<inbox, deliveries>>

clientVars == <<localStorage, items, sendPage, tab, viewVars, runs>>

-----------------------------------------------------------------------------
(* Bounds of the model *)

\* sendMessage is called while fewer than this many messages are accepted.
MaxMessages == 2
\* A submitted nonce is lastNonce[sender] + d for d in 0..MaxSkip.
MaxSkip == 2
\* block.timestamp of the first block after deployment.
GenesisTime == 100

\* uint64 public minIntervalSeconds = 10
DefaultMinInterval == 10

\* In the long runs sendMessage is called while fewer than this many are accepted.
LongRunMessages == 4

\* Next to the key registry sendMessage is called while fewer than this many are accepted.
RegistryMessages == 2

\* The Send page is used while fewer than this many messages are accepted.
EnvelopeMessages == 1
\* The pages put at most this many objects with ipfsPutJson.
MaxBlobs == 3
\* The keys randHex can draw: more than the pages ever put.
MaxURIs == 8

\* While the Inbox effect runs, onSend is run while fewer than this many
\* messages are accepted and at most this many objects are put.
InboxMessages == 2
InboxBlobs == 5
\* MessageSent of one id is passed to the handler at most this many times.
MaxDeliveries == 2
\* The runs of onSend in the windows put at most this many objects.
RunBlobs == 5

\* block.timestamp of the blocks that are mined, relative to GenesisTime.
BlockOffsets == {0, 5, 10}
BlockTimes == {GenesisTime + d : d \in BlockOffsets}
LongRunOffsets == {0, 5, 10, 11, 20}
LongRunTimes == {GenesisTime + d : d \in LongRunOffsets}

-----------------------------------------------------------------------------
(* Values *)

ZeroAddress == "0x0"             \* address(0)
ZeroHash == "0x00"               \* bytes32(0)
ZeroIV == "iv0"                  \* bytes12(0)
StrayAddress == "0xstray"        \* an address nobody holds the key of

Senders == {"alice", "bob"}      \* the accounts that send transactions
Signers == Senders \cup {"charlie"}
Users == Senders                 \* the non-null addresses messages go to
Recipients == {ZeroAddress, "bob"} \* the recipients of the calls with any arguments
Hashes == {ZeroHash, "sha1"}
IVs == {ZeroIV, "iv1", "iv2"}
ContentCIDs == {"ipfs://content"}
KeyCIDs == {"ipfs://key"}
IntervalValues == {0, DefaultMinInterval}

\* bytes32(0) as the r component of a signature.
ZeroSigR == [by |-> ZeroAddress, over |-> <<>>]

\* sigV = 0, sigR = sigS = bytes32(0): the call carries no signature.
ZeroSig == [v |-> 0, r |-> ZeroSigR, s |-> 0]

\* keccak256(bytes(s)): injective, and never the argument itself.
keccak256(s) == <<"keccak256", s>>

\* The default value of a storage slot holding a MessageMeta.
ZeroMeta ==
    [id |-> 0, sender |-> ZeroAddress, recipient |-> ZeroAddress, timestamp |-> 0,
     sha256Hash |-> ZeroHash, iv |-> ZeroIV,
     contentCidHash |-> <<>>, keyCidHash |-> <<>>, nonce |-> 0,
     sigR |-> ZeroSigR, sigS |-> 0, sigV |-> 0]

\* The default value of a storage slot holding a KeyRecord.
ZeroKeyRecord == [rsaPubKeySha256 |-> ZeroHash, rsaPubKeyURI |-> "", updatedAt |-> 0]

\* The storage of the contract as one value.
Storage ==
    [nextMessageId |-> nextMessageId, messages |-> messages,
     inboxIndex |-> inboxIndex, outboxIndex |-> outboxIndex,
     lastNonce |-> lastNonce, minIntervalSeconds |-> minIntervalSeconds,
     lastSentAt |-> lastSentAt, usedIV |-> usedIV, keyRegistry |-> keyRegistry]

\* useState(""): the Send page before anything is typed.
NoSend == [recipient |-> "", message |-> <<>>,
           status |-> [text |-> "", contentCID |-> "", keyCID |-> ""]]

\* The windows of the browser in which the Send page is used side by side.
Windows == {"w1", "w2"}

\* onSend has not been run in the window.
NoRun == [pc |-> "idle", me |-> "", args |-> <<>>, contentCID |-> "", keyCID |-> "",
          tx |-> "none", result |-> <<>>, submits |-> 0,
          status |-> [text |-> "", contentCID |-> "", keyCID |-> ""]]

\* No effect of the Inbox page is running.
NoInbox ==
    [pc |-> "idle", me |-> "", base |-> <<>>, enriched |-> <<>>, from |-> 0,
     alive |-> TRUE, pending |-> <<>>]

NoReceipt ==
    [op |-> "none", from |-> ZeroAddress, args |-> <<>>, at |-> 0,
     status |-> "none", logs |-> <<>>, undone |-> FALSE]

-----------------------------------------------------------------------------
(* Transactions *)

\* A failed require: every storage write of the call is undone, nothing is logged.
\* A revert that leaves the writes made before the failed require in place.
RevertKeepsWrites(pre, cur, reason) ==
    [storage |-> cur, status |-> reason, logs |-> <<>>, undone |-> FALSE]

\* undone tells whether the call had written anything by then.
Revert(pre, cur, reason) ==
    [storage |-> pre, status |-> reason, logs |-> <<>>, undone |-> cur # pre]

\* The function body ran to its end.
Return(cur, logs) == [storage |-> cur, status |-> "ok", logs |-> logs, undone |-> FALSE]

-----------------------------------------------------------------------------
(* Signatures *)

\* signer.signMessage(commit): an ECDSA signature (v, r, s) over the hash.
Sign(signer, hash) == [v |-> 27, r |-> [by |-> signer, over |-> hash], s |-> 1]

\* The precompile: address(0) for a malformed signature, the signer for the
\* hash that was signed, an unrelated address for any other hash.
ecrecover(hash, v, r, s) ==
    IF v \notin {27, 28} \/ r = ZeroSigR \/ s = 0 THEN ZeroAddress
    ELSE IF r.over = hash THEN r.by
    ELSE StrayAddress

\* keccak256(abi.encodePacked(0x19, 'E', "MSG:", sender, recipient, nowTs, ...)).
CommitHash(sender, recipient, nowTs, sha256Hash, iv, contentCidHash, keyCidHash, nonce) ==
    keccak256(<<"0x19", "0x45", "MSG:", sender, recipient, nowTs, sha256Hash, iv,
                contentCidHash, keyCidHash, nonce>>)

\* keccak256(abi.encodePacked("\x19Ethereum Signed Message:\n32", commit)).
EthMsgHash(commit) == keccak256(<<"\\x19Ethereum Signed Message:\\n32", commit>>)


-----------------------------------------------------------------------------
(* sendMessage *)

\* The argument checks without require(iv != bytes12(0)).
InputCheckWithoutIV(a) ==
    IF a.recipient = ZeroAddress THEN "recipient=0"
    ELSE IF a.sha256Hash = ZeroHash THEN "sha256Hash=0"
    ELSE ""

\* The three require's on the arguments, in the order of the code: the reason
\* of the first that fails, "" when all pass.
InputCheck(a) ==
    IF a.recipient = ZeroAddress THEN "recipient=0"
    ELSE IF a.sha256Hash = ZeroHash THEN "sha256Hash=0"
    ELSE IF a.iv = ZeroIV THEN "iv=0"
    ELSE ""

\* The rate limit with > for >=.
RateOkStrict(S, sender, nowTs) ==
    nowTs - S.lastSentAt[sender] > S.minIntervalSeconds

\* require(nowTs - lastTs >= minIntervalSeconds, "rate-limited")
RateOk(S, sender, nowTs) ==
    nowTs - S.lastSentAt[sender] >= S.minIntervalSeconds

\* The IV lookup with the sender and recipient keys swapped.
IVFreshSwappedKeys(S, sender, a) == <<a.recipient, sender, a.iv>> \notin S.usedIV

\* require(!usedIV[msg.sender][recipient][iv], "IV already used")
IVFresh(S, sender, a) == <<sender, a.recipient, a.iv>> \notin S.usedIV

\* The nonce check that also takes the nonce accepted last.
NonceOkNotEarlier(S, sender, a) == a.nonce >= S.lastNonce[sender]

\* The nonce check with > lastNonce for == lastNonce + 1.
NonceOkAnyLater(S, sender, a) == a.nonce > S.lastNonce[sender]

\* require(nonce == lastNonce[msg.sender] + 1, "bad nonce")
NonceOk(S, sender, a) == a.nonce = S.lastNonce[sender] + 1

\* The signature test with && for ||.
SigPresentAllSet(a) == a.sigV # 0 /\ a.sigR # ZeroSigR /\ a.sigS # 0

\* The signature verified on every call.
SigPresentAlways(a) == TRUE

\* if (sigV != 0 || sigR != bytes32(0) || sigS != bytes32(0))
SigPresent(a) == a.sigV # 0 \/ a.sigR # ZeroSigR \/ a.sigS # 0

\* The signer recovered from (sigV, sigR, sigS) over the commitment of the call.
Recovered(sender, nowTs, a) ==
    ecrecover(
        EthMsgHash(CommitHash(sender, a.recipient, nowTs, a.sha256Hash, a.iv,
                              keccak256(a.contentCID), keccak256(a.keyCID), a.nonce)),
        a.sigV, a.sigR, a.sigS)

\* require(recovered == msg.sender, "bad signature")
SigOk(sender, nowTs, a) == Recovered(sender, nowTs, a) = sender

\* The MessageMeta with the nonce of the sender stored as its id.
NewMetaIdOfNonce(id, sender, nowTs, a) ==
    [id |-> a.nonce, sender |-> sender, recipient |-> a.recipient, timestamp |-> nowTs,
     sha256Hash |-> a.sha256Hash, iv |-> a.iv,
     contentCidHash |-> keccak256(a.contentCID), keyCidHash |-> keccak256(a.keyCID),
     nonce |-> a.nonce, sigR |-> a.sigR, sigS |-> a.sigS, sigV |-> a.sigV]

\* The MessageMeta the call stores under id.
NewMeta(id, sender, nowTs, a) ==
    [id |-> id, sender |-> sender, recipient |-> a.recipient, timestamp |-> nowTs,
     sha256Hash |-> a.sha256Hash, iv |-> a.iv,
     contentCidHash |-> keccak256(a.contentCID), keyCidHash |-> keccak256(a.keyCID),
     nonce |-> a.nonce, sigR |-> a.sigR, sigS |-> a.sigS, sigV |-> a.sigV]

\* The event with the two locator commitments in each other's place.
MessageSentEventCidsSwapped(m) ==
    [name |-> "MessageSent", id |-> m.id, sender |-> m.sender,
     recipient |-> m.recipient, timestamp |-> m.timestamp,
     sha256Hash |-> m.sha256Hash, iv |-> m.iv,
     contentCidHash |-> m.keyCidHash, keyCidHash |-> m.contentCidHash,
     nonce |-> m.nonce]

\* emit MessageSent(id, msg.sender, recipient, nowTs, sha256Hash, iv, ..., nonce)
MessageSentEvent(m) ==
    [name |-> "MessageSent", id |-> m.id, sender |-> m.sender,
     recipient |-> m.recipient, timestamp |-> m.timestamp,
     sha256Hash |-> m.sha256Hash, iv |-> m.iv,
     contentCidHash |-> m.contentCidHash, keyCidHash |-> m.keyCidHash,
     nonce |-> m.nonce]

\* The commit that appends the id to the inbox of the sender.
CommitInboxOfSender(S, sender, nowTs, a) ==
    LET id == S.nextMessageId
        m == NewMeta(id, sender, nowTs, a)
    IN  [S EXCEPT !.nextMessageId = id + 1,
                  !.messages = (id :> m) @@ @,
                  !.inboxIndex[sender] = Append(@, id),
                  !.outboxIndex[sender] = Append(@, id)]

\* The commit that also stamps the earlier messages of the sender with nowTs.
CommitRestamps(S, sender, nowTs, a) ==
    LET id == S.nextMessageId
        m == NewMeta(id, sender, nowTs, a)
    IN  [S EXCEPT !.nextMessageId = id + 1,
                  !.messages = (id :> m) @@
                      [k \in DOMAIN @ |-> IF @[k].sender = sender
                                          THEN [@[k] EXCEPT !.timestamp = nowTs]
                                          ELSE @[k]],
                  !.inboxIndex[a.recipient] = Append(@, id),
                  !.outboxIndex[sender] = Append(@, id)]

\* The writes after the last require: the id, the MessageMeta, both indices.
Commit(S, sender, nowTs, a) ==
    LET id == S.nextMessageId
        m == NewMeta(id, sender, nowTs, a)
    IN  [S EXCEPT !.nextMessageId = id + 1,
                  !.messages = (id :> m) @@ @,
                  !.inboxIndex[a.recipient] = Append(@, id),
                  !.outboxIndex[sender] = Append(@, id)]

\* sendMessage with the IV check moved before the rate limit.
sendMessageIVFirst(S, sender, nowTs, a) ==
    IF InputCheck(a) # "" THEN Revert(S, S, InputCheck(a))
    ELSE IF ~IVFresh(S, sender, a) THEN Revert(S, S, "IV already used")
    ELSE LET S1 == [S EXCEPT !.usedIV = @ \cup {<<sender, a.recipient, a.iv>>}] IN
    IF nowTs < S1.lastSentAt[sender] THEN Revert(S, S1, "panic")
    ELSE IF ~RateOk(S1, sender, nowTs) THEN Revert(S, S1, "rate-limited")
    ELSE LET S2 == [S1 EXCEPT !.lastSentAt[sender] = nowTs] IN
    IF ~NonceOk(S2, sender, a) THEN Revert(S, S2, "bad nonce")
    ELSE LET S3 == [S2 EXCEPT !.lastNonce[sender] = a.nonce] IN
    IF SigPresent(a) /\ ~SigOk(sender, nowTs, a) THEN Revert(S, S3, "bad signature")
    ELSE LET S4 == Commit(S3, sender, nowTs, a) IN
    Return(S4, <<MessageSentEvent(S4.messages[S3.nextMessageId])>>)

\* The body of sendMessage run by msg.sender = sender in a block stamped nowTs
\* on storage S: the storage it leaves, the status and the logs.
sendMessage(S, sender, nowTs, a) ==
    IF InputCheck(a) # "" THEN Revert(S, S, InputCheck(a))
    ELSE IF nowTs < S.lastSentAt[sender] THEN Revert(S, S, "panic")
    ELSE IF ~RateOk(S, sender, nowTs) THEN Revert(S, S, "rate-limited")
    ELSE LET S1 == [S EXCEPT !.lastSentAt[sender] = nowTs] IN
    IF ~IVFresh(S1, sender, a) THEN Revert(S, S1, "IV already used")
    ELSE LET S2 == [S1 EXCEPT !.usedIV = @ \cup {<<sender, a.recipient, a.iv>>}] IN
    IF ~NonceOk(S2, sender, a) THEN Revert(S, S2, "bad nonce")
    ELSE LET S3 == [S2 EXCEPT !.lastNonce[sender] = a.nonce] IN
    IF SigPresent(a) /\ ~SigOk(sender, nowTs, a) THEN Revert(S, S3, "bad signature")
    ELSE LET S4 == Commit(S3, sender, nowTs, a) IN
    Return(S4, <<MessageSentEvent(S4.messages[S3.nextMessageId])>>)

-----------------------------------------------------------------------------
(* The getters *)

\* function getInboxIds(address user) external view returns (uint256[] memory)
getInboxIds(S, user) == S.inboxIndex[user]

\* function getOutboxIds(address user) external view returns (uint256[] memory)
getOutboxIds(S, user) == S.outboxIndex[user]

\* The lookup with the sender and recipient keys swapped.
isIVUsedSwappedKeys(S, sender, recipient, iv) == <<recipient, sender, iv>> \in S.usedIV

\* function isIVUsed(address sender, address recipient, bytes12 iv): usedIV[sender][recipient][iv]
isIVUsed(S, sender, recipient, iv) == <<sender, recipient, iv>> \in S.usedIV

-----------------------------------------------------------------------------
(* The calls that are made *)

\* The signatures a sender submits with the other arguments b: none, its own
\* over the commitment of the block the call is mined in, charlie's over the same
\* commitment, its own over the commitment with an earlier timestamp, and its
\* own with the v component left zero.
SigChoices(sender, nowTs, b) ==
    LET h(ts) == EthMsgHash(CommitHash(sender, b.recipient, ts, b.sha256Hash, b.iv,
                                       keccak256(b.contentCID), keccak256(b.keyCID),
                                       b.nonce))
        own == Sign(sender, h(nowTs))
    IN  { ZeroSig,
          own,
          Sign("charlie", h(nowTs)),
          Sign(sender, h(nowTs - 1)),
          [own EXCEPT !.v = 0] }

\* The arguments of a sendMessage call but for the signature, as a sender
\* picks them in this state.
SendFields(sender) ==
    [recipient : Recipients, contentCID : ContentCIDs, keyCID : KeyCIDs,
     sha256Hash : Hashes, iv : IVs,
     nonce : {lastNonce[sender] + d : d \in 0..MaxSkip}]

\* The argument list of the call: the fields b and the signature sg.
SendArgs(b, sg) ==
    [recipient |-> b.recipient, contentCID |-> b.contentCID, keyCID |-> b.keyCID,
     sha256Hash |-> b.sha256Hash, iv |-> b.iv, nonce |-> b.nonce,
     sigV |-> sg.v, sigR |-> sg.r, sigS |-> sg.s]

-----------------------------------------------------------------------------
(* The state machine *)

Init ==
    /\ nextMessageId = 1
    /\ messages = <<>>
    /\ inboxIndex = [u \in Users |-> <<>>]
    /\ outboxIndex = [u \in Users |-> <<>>]
    /\ lastNonce = [u \in Users |-> 0]
    /\ minIntervalSeconds = DefaultMinInterval
    /\ lastSentAt = [u \in Users |-> 0]
    /\ usedIV = {}
    /\ keyRegistry = [u \in Users |-> ZeroKeyRecord]
    /\ blockTimestamp = GenesisTime
    /\ eventLog = <<>>
    /\ receipt = NoReceipt
    /\ localStorage = <<>>
    /\ items = [u \in Users |-> <<>>]
    /\ sendPage = [u \in Users |-> NoSend]
    /\ tab = "send"
    /\ inbox = NoInbox
    /\ deliveries = <<>>
    /\ runs = [w \in Windows |-> NoRun]

\* The storage after a transaction, and the chain's log of MessageSent events.
Apply(r) ==
    /\ nextMessageId' = r.storage.nextMessageId
    /\ messages' = r.storage.messages
    /\ inboxIndex' = r.storage.inboxIndex
    /\ outboxIndex' = r.storage.outboxIndex
    /\ lastNonce' = r.storage.lastNonce
    /\ minIntervalSeconds' = r.storage.minIntervalSeconds
    /\ lastSentAt' = r.storage.lastSentAt
    /\ usedIV' = r.storage.usedIV
    /\ keyRegistry' = r.storage.keyRegistry
    /\ eventLog' = eventLog \o SelectSeq(r.logs, LAMBDA e : e.name = "MessageSent")

\* sender calls sendMessage(a...) and the transaction is mined in the current block.
SendMessage(sender, a) ==
    /\ LET r == sendMessage(Storage, sender, blockTimestamp, a) IN
       /\ Apply(r)
       /\ receipt' = [op |-> "sendMessage", from |-> sender, args |-> a,
                      at |-> blockTimestamp, status |-> r.status, logs |-> r.logs,
                      undone |-> r.undone]
    /\ UNCHANGED <<blockTimestamp, clientVars>>

\* setMinInterval that also clears the time of every sender's last message.
setMinIntervalResetsClock(S, newValue) ==
    Return([S EXCEPT !.minIntervalSeconds = newValue,
                     !.lastSentAt = [u \in DOMAIN S.lastSentAt |-> 0]],
           <<[name |-> "MinIntervalUpdated", newValue |-> newValue]>>)

\* function setMinInterval(uint64 newValue) external: anyone may call it.
setMinInterval(S, newValue) ==
    Return([S EXCEPT !.minIntervalSeconds = newValue],
           <<[name |-> "MinIntervalUpdated", newValue |-> newValue]>>)

SetMinInterval(sender, newValue) ==
    /\ newValue # minIntervalSeconds
    /\ LET r == setMinInterval(Storage, newValue) IN
       /\ Apply(r)
       /\ receipt' = [op |-> "setMinInterval", from |-> sender, args |-> <<newValue>>,
                      at |-> blockTimestamp, status |-> r.status, logs |-> r.logs,
                      undone |-> r.undone]
    /\ UNCHANGED <<blockTimestamp, clientVars>>

\* The sender of the transaction has read its receipt (tx.wait() returned).
TakeReceipt ==
    /\ receipt.op # "none"
    /\ receipt' = NoReceipt
    /\ UNCHANGED <<ledgerVars, blockTimestamp, clientVars>>

\* A later block is mined, stamped with one of the times.
MineBlock(times) ==
    /\ receipt.op = "none"
    /\ \E t \in times : t > blockTimestamp /\ blockTimestamp' = t
    /\ UNCHANGED <<ledgerVars, receipt, clientVars>>

Tick == MineBlock(BlockTimes)

\* A transaction is sent once the receipt of the one before has been read.
Next ==
    \/ /\ receipt.op = "none"
       /\ nextMessageId <= MaxMessages
       /\ \E sender \in Senders : \E b \in SendFields(sender) :
            \E sg \in SigChoices(sender, blockTimestamp, b) :
                SendMessage(sender, SendArgs(b, sg))
    \/ /\ receipt.op = "none"
       /\ \E sender \in Senders : \E v \in IntervalValues : SetMinInterval(sender, v)
    \/ TakeReceipt
    \/ Tick

Spec == Init /\ [][Next]_vars

\* The registration that keeps the stored locator when the new one is empty.
registerRSAPublicKeyKeepsURI(S, sender, nowTs, rsaPubKeySha256, rsaPubKeyURI) ==
    LET rec == [rsaPubKeySha256 |-> rsaPubKeySha256,
                rsaPubKeyURI |-> IF rsaPubKeyURI = "" THEN S.keyRegistry[sender].rsaPubKeyURI
                                 ELSE rsaPubKeyURI,
                updatedAt |-> nowTs]
    IN  Return([S EXCEPT !.keyRegistry[sender] = rec],
               <<[name |-> "KeyRegistered", owner |-> sender,
                  rsaPubKeySha256 |-> rsaPubKeySha256, rsaPubKeyURI |-> rsaPubKeyURI,
                  updatedAt |-> nowTs]>>)

\* function registerRSAPublicKey(bytes32 rsaPubKeySha256, string rsaPubKeyURI)
registerRSAPublicKey(S, sender, nowTs, rsaPubKeySha256, rsaPubKeyURI) ==
    LET rec == [rsaPubKeySha256 |-> rsaPubKeySha256, rsaPubKeyURI |-> rsaPubKeyURI,
                updatedAt |-> nowTs]
    IN  Return([S EXCEPT !.keyRegistry[sender] = rec],
               <<[name |-> "KeyRegistered", owner |-> sender,
                  rsaPubKeySha256 |-> rsaPubKeySha256, rsaPubKeyURI |-> rsaPubKeyURI,
                  updatedAt |-> nowTs]>>)

RegisterRSAPublicKey(sender, rsaPubKeySha256, rsaPubKeyURI) ==
    /\ LET r == registerRSAPublicKey(Storage, sender, blockTimestamp,
                                     rsaPubKeySha256, rsaPubKeyURI) IN
       /\ Apply(r)
       /\ receipt' = [op |-> "registerRSAPublicKey", from |-> sender,
                      args |-> <<rsaPubKeySha256, rsaPubKeyURI>>,
                      at |-> blockTimestamp, status |-> r.status, logs |-> r.logs,
                      undone |-> r.undone]
    /\ UNCHANGED <<blockTimestamp, clientVars>>

-----------------------------------------------------------------------------
(* The key registry next to the messages: every function of the contract *)

\* The arguments of the registerRSAPublicKey calls: any bytes32, any string.
KeyDigests == {ZeroHash, "fp1"}
KeyURIs == {"", "local://key1"}

RegistryOffsets == {0, 10}
RegistryTimes == {GenesisTime + d : d \in RegistryOffsets}

\* Unsigned calls with valid input, one iv and the next nonce.
RegistryFields(sender) ==
    [recipient : Users, contentCID : ContentCIDs, keyCID : KeyCIDs,
     sha256Hash : Hashes \ {ZeroHash}, iv : {"iv1"},
     nonce : {lastNonce[sender] + 1}]

RegistryNext ==
    \/ /\ receipt.op = "none"
       /\ nextMessageId <= RegistryMessages
       /\ \E sender \in Senders : \E b \in RegistryFields(sender) :
            SendMessage(sender, SendArgs(b, ZeroSig))
    \/ /\ receipt.op = "none"
       /\ \E sender \in Senders : \E v \in IntervalValues : SetMinInterval(sender, v)
    \/ /\ receipt.op = "none"
       /\ \E sender \in Senders : \E d \in KeyDigests : \E u \in KeyURIs :
            RegisterRSAPublicKey(sender, d, u)
    \/ TakeReceipt
    \/ MineBlock(RegistryTimes)

RegistrySpec == Init /\ [][RegistryNext]_vars

-----------------------------------------------------------------------------
(* lib/crypto.ts and lib/ipfs.ts *)

(***************************************************************************)
(* A JavaScript string is a sequence of UTF-16 code units, a Uint8Array a  *)
(* value of its own kind: the UTF-8 bytes of a text are the sequence of    *)
(* the scalar values they encode.  The ciphers are perfect: an AES-GCM     *)
(* ciphertext opens under the key and the iv it was sealed with and only   *)
(* when no bit of it has been changed, an RSA-OAEP ciphertext under the    *)
(* private key of the pair it was made for.  A call that throws returns    *)
(* [ok |-> FALSE, error |-> message].                                      *)
(***************************************************************************)

\* The code units of the texts: a letter, U+FEFF, a high and a low surrogate.
CodeUnits == {"a", "FEFF", "D83D", "DE00"}

Ok(v) == [ok |-> TRUE, value |-> v]
Throw(e) == [ok |-> FALSE, error |-> e]

\* new TextEncoder().encode(s): a surrogate pair is one scalar value, a lone
\* surrogate is encoded as U+FFFD.
RECURSIVE TextEncode(_)
TextEncode(s) ==
    IF s = <<>> THEN <<>>
    ELSE IF Head(s) = "D83D" /\ Len(s) >= 2 /\ s[2] = "DE00"
         THEN <<"1F600">> \o TextEncode(Tail(Tail(s)))
    ELSE IF Head(s) \in {"D83D", "DE00"} THEN <<"FFFD">> \o TextEncode(Tail(s))
    ELSE <<Head(s)>> \o TextEncode(Tail(s))

\* The code units of the scalar values, one after the other.
RECURSIVE CodeUnitsOf(_)
CodeUnitsOf(b) ==
    IF b = <<>> THEN <<>>
    ELSE IF Head(b) = "1F600" THEN <<"D83D", "DE00">> \o CodeUnitsOf(Tail(b))
    ELSE <<Head(b)>> \o CodeUnitsOf(Tail(b))

\* new TextDecoder().decode(b): utf-8, ignoreBOM false: a leading byte order
\* mark is not part of the text.
TextDecode(b) ==
    IF b # <<>> /\ Head(b) = "FEFF" THEN CodeUnitsOf(Tail(b)) ELSE CodeUnitsOf(b)

\* bytesToHex / hexToBytes: "0x" and two digits per byte, and back.
bytesToHex(b) == [hex |-> b]
hexToBytes(h) == h.hex

\* bytesToBase64 / base64ToBytes: atob throws on text that is not base64.
bytesToBase64(b) == [b64 |-> b, valid |-> TRUE]
base64ToBytes(x) ==
    IF x.valid THEN Ok(x.b64) ELSE Throw("The string to be decoded is not correctly encoded.")

\* crypto.subtle.digest("SHA-256", data): injective; bytes are tuples.
SHA256(data) == "sha256:" \o ToString(data)

\* sha256Bytes(data): the digest as a hex string.
sha256Bytes(data) == bytesToHex(SHA256(data))

\* sha256HexOfString(s): of the UTF-8 bytes of the JSON text of a JWK.
sha256HexOfString(s) ==
    sha256Bytes(<<"utf8", s.json.kty, s.json.alg, s.json.kp, s.json.d>>)

\* The bytes of an AES-GCM ciphertext with its tag: the key and the iv it was
\* sealed under, the bytes that were sealed, and whether the bytes are still
\* the ones the cipher produced.
Sealed(key, iv, data) == <<key, iv, data, TRUE>>
SealedKey(c) == c[1]
SealedIv(c) == c[2]
SealedData(c) == c[3]
Intact(c) == c[4]

\* aesEncrypt(plaintext, key) with the 12 random bytes iv: the ciphertext with its tag.
aesEncrypt(plaintext, key, iv) ==
    [ciphertext |-> Sealed(key, iv, TextEncode(plaintext)), iv |-> iv]

\* aesDecrypt(ciphertext, key, iv): throws when the tag does not verify.
aesDecrypt(ciphertext, key, iv) ==
    IF SealedKey(ciphertext) = key /\ SealedIv(ciphertext) = iv /\ Intact(ciphertext)
    THEN Ok(TextDecode(SealedData(ciphertext)))
    ELSE Throw("The operation failed for an operation-specific reason")

\* The public and the private JWK of a key pair.
PublicJwk(kp) == [kty |-> "RSA", alg |-> "RSA-OAEP-256", kp |-> kp, d |-> FALSE]
PrivateJwk(kp) == [kty |-> "RSA", alg |-> "RSA-OAEP-256", kp |-> kp, d |-> TRUE]

\* importRsaPublicKeyJwk(jwk) / importRsaPrivateKeyJwk(jwk)
importRsaPublicKeyJwk(jwk) == IF ~jwk.d THEN Ok(jwk.kp) ELSE Throw("DataError")
importRsaPrivateKeyJwk(jwk) == IF jwk.d THEN Ok(jwk.kp) ELSE Throw("DataError")

\* rsaOaepEncrypt(pub, data) / rsaOaepDecrypt(priv, data)
rsaOaepEncrypt(pub, data) == [rsa |-> pub, data |-> data]
rsaOaepDecrypt(priv, data) ==
    IF data.rsa = priv THEN Ok(data.data)
    ELSE Throw("The operation failed for an operation-specific reason")

\* JSON.stringify(obj) / JSON.parse(text)
JSONstringify(obj) == [json |-> obj]
JSONparse(text) == text.json

\* The keys ipfsPutJson draws: "local://" and 40 random hex digits.
LocalURIs == {"local://" \o ToString(n) : n \in 1..MaxURIs}

\* The objects put so far.
Blobs(ls) == DOMAIN ls \cap LocalURIs

\* "local://" + randHex(40): a key no earlier put has drawn.
FreshURI(ls) == "local://" \o ToString(Cardinality(Blobs(ls)) + 1)

\* localStorage.setItem(key, value)
setItem(ls, key, value) == (key :> value) @@ ls

\* ipfsPutJson(obj): the key, and the localStorage with the object under it.
ipfsPutJson(ls, obj) ==
    [uri |-> FreshURI(ls), ls |-> setItem(ls, FreshURI(ls), JSONstringify(obj))]

\* ipfsGetJson(uri): every uri of the model starts with local://.
ipfsGetJson(ls, uri) ==
    IF uri = "" THEN Throw("empty URI")
    ELSE IF uri \notin DOMAIN ls THEN Throw("local URI not found in this browser: " \o uri)
    ELSE Ok(JSONparse(ls[uri]))

-----------------------------------------------------------------------------
(* pages/RegisterKey.tsx, pages/Send.tsx, Inbox.tsx *)

Writers == {"alice"}             \* the users of the Send page
Readers == {"bob"}               \* the users of the RegisterKey and Inbox pages
KeyPairs == {"kp1", "kp2"}       \* the RSA key pairs of the readers
AesKeys == {"k1"}                \* the keys aesGenKey draws
Plaintexts ==                    \* the texts typed into the Send page
    {<<>>, <<"a">>, <<"FEFF", "a">>, <<"D83D", "DE00">>, <<"D83D">>}

NoKeyCID == "local://no-key"

\* crypto.getRandomValues(iv): twelve random bytes, never drawn before.
DrawnIVs(ls) == {"iv" \o ToString(Cardinality(Blobs(ls)) + 1)}

\* aesExportRaw(key) / aesImportRaw(raw)
aesExportRaw(key) == [raw |-> key]
aesImportRaw(raw) == raw.raw

\* onRegister: the fingerprint of the JWK, the JWK put under a fresh key,
\* and the registerRSAPublicKey transaction.
onRegister(S, ls, me, nowTs, jwk) ==
    LET fp == sha256HexOfString(JSONstringify(jwk))
        put == ipfsPutJson(ls, jwk)
    IN  [tx |-> registerRSAPublicKey(S, me, nowTs, hexToBytes(fp), put.uri), ls |-> put.ls]

\* The key step that puts an envelope, with no wrapped key in it, also when
\* the recipient's public key is not available.
KeyEnvelopeAlwaysPuts(S, ls, recipient, aesKey) ==
    LET uri == S.keyRegistry[recipient].rsaPubKeyURI
        jwk == ipfsGetJson(ls, uri)
        pub == importRsaPublicKeyJwk(jwk.value)
        empty == ipfsPutJson(ls, [scheme |-> "RSA-OAEP-256", v |-> 1,
                                  encrypted_key_b64 |-> ""])
    IN  IF uri = "" \/ uri = NoKeyCID THEN empty
        ELSE IF ~jwk.ok THEN empty
        ELSE IF ~pub.ok THEN empty
        ELSE ipfsPutJson(ls, [scheme |-> "RSA-OAEP-256", v |-> 1,
                              encrypted_key_b64 |->
                                  bytesToBase64(rsaOaepEncrypt(pub.value, aesExportRaw(aesKey)))])

\* Send.tsx lines 35-54: the key locator, and the localStorage with the key
\* envelope when the recipient's registered public key could be fetched.
KeyEnvelope(S, ls, recipient, aesKey) ==
    LET uri == S.keyRegistry[recipient].rsaPubKeyURI
        jwk == ipfsGetJson(ls, uri)
        pub == importRsaPublicKeyJwk(jwk.value)
    IN  IF uri = "" \/ uri = NoKeyCID THEN [uri |-> NoKeyCID, ls |-> ls]
        ELSE IF ~jwk.ok THEN [uri |-> NoKeyCID, ls |-> ls]
        ELSE IF ~pub.ok THEN [uri |-> NoKeyCID, ls |-> ls]
        ELSE ipfsPutJson(ls, [scheme |-> "RSA-OAEP-256", v |-> 1,
                              encrypted_key_b64 |->
                                  bytesToBase64(rsaOaepEncrypt(pub.value, aesExportRaw(aesKey)))])

\* The status line of the Send page.
SendStatus(text, contentCID, keyCID) ==
    [text |-> text, contentCID |-> contentCID, keyCID |-> keyCID]

\* onSend run by the connected address me with the recipient and the message
\* typed, the key and the iv drawn: the transaction, the localStorage and the
\* status it leaves.
onSend(S, ls, me, nowTs, recipient, message, aesKey, iv) ==
    IF recipient = "" \/ message = <<>>
    THEN [tx |-> Return(S, <<>>), ls |-> ls,
          status |-> SendStatus("Recipient and message are required.", "", "")]
    ELSE
    LET enc == aesEncrypt(message, aesKey, iv)
        sha == sha256Bytes(enc.ciphertext)
        key == KeyEnvelope(S, ls, recipient, aesKey)
        content == ipfsPutJson(key.ls, [algo |-> "AES-256-GCM", v |-> 1,
                                        iv |-> bytesToHex(enc.iv),
                                        ciphertext_b64 |-> bytesToBase64(enc.ciphertext)])
        tx == sendMessage(S, me, nowTs,
                          [recipient |-> recipient, contentCID |-> content.uri,
                           keyCID |-> key.uri, sha256Hash |-> hexToBytes(sha),
                           iv |-> hexToBytes(bytesToHex(enc.iv)),
                           nonce |-> S.lastNonce[me] + 1,
                           sigV |-> 0, sigR |-> ZeroSigR, sigS |-> 0])
    IN  IF tx.status # "ok"
        THEN [tx |-> tx, ls |-> content.ls,
              status |-> SendStatus("Send failed: " \o tx.status, "", "")]
        ELSE [tx |-> tx,
              ls |-> setItem(content.ls, "msgmap:" \o ToString(tx.logs[1].id),
                             JSONstringify([contentCID |-> content.uri, keyCID |-> key.uri])),
              status |-> SendStatus("Sent!", content.uri, key.uri)]

\* plaintext?: string and note?: string when they are not set.
Undefined == <<"undefined">>
NoNote == ""

\* The notes of tryDecrypt.
NoteLocatorsUnknown ==
    "Off-chain CIDs unknown on this device (ask sender or use shared backend/IPFS)."
NoteNoPrivateKey == "Private JWK not imported for this address."
NoteNoDataKey == "No encrypted data key (message sent when you had no public key)."
NoteIntegrityMismatch == "Integrity mismatch (on-chain hash != ciphertext hash)."

\* The Item of a MessageSent log with a note set from the start.
BaseItemNoted(e) ==
    [id |-> e.id, sender |-> e.sender, recipient |-> e.recipient,
     timestamp |-> e.timestamp, sha256Hash |-> bytesToHex(e.sha256Hash),
     iv |-> bytesToHex(e.iv), contentCID |-> "(off-chain)", keyCID |-> "(off-chain)",
     plaintext |-> Undefined, note |-> "Loading...", calls |-> <<>>]

\* The Item of a MessageSent log, as preloadFromLogs and the handler build it.
BaseItem(e) ==
    [id |-> e.id, sender |-> e.sender, recipient |-> e.recipient,
     timestamp |-> e.timestamp, sha256Hash |-> bytesToHex(e.sha256Hash),
     iv |-> bytesToHex(e.iv), contentCID |-> "(off-chain)", keyCID |-> "(off-chain)",
     plaintext |-> Undefined, note |-> NoNote, calls |-> <<>>]

\* preloadFromLogs(me, contract): the MessageSent logs with recipient me, the
\* latest id first.
preloadFromLogs(log, me) ==
    LET mine == SelectSeq(log, LAMBDA e : e.recipient = me)
    IN  [k \in 1..Len(mine) |-> BaseItem(mine[Len(mine) + 1 - k])]

\* tryDecrypt with the digest compared after the cipher is opened.
tryDecryptOpensFirst(ls, me, it) ==
    LET mapKey == "msgmap:" \o ToString(it.id)
        privKey == "rsa:priv:" \o me
        map == JSONparse(ls[mapKey])
        known == [it EXCEPT !.contentCID = map.contentCID, !.keyCID = map.keyCID]
        caught(r, calls) == [known EXCEPT !.note = r.error, !.calls = calls]
        priv == importRsaPrivateKeyJwk(JSONparse(ls[privKey]))
        keyJson == ipfsGetJson(ls, map.keyCID)
        encKey == base64ToBytes(keyJson.value.encrypted_key_b64)
        rawKey == rsaOaepDecrypt(priv.value, encKey.value)
        aesKey == aesImportRaw(rawKey.value)
        contentJson == ipfsGetJson(ls, map.contentCID)
        iv == hexToBytes(contentJson.value.iv)
        ct == base64ToBytes(contentJson.value.ciphertext_b64)
        sha == sha256Bytes(ct.value)
        plaintext == aesDecrypt(ct.value, aesKey, iv)
    IN  IF mapKey \notin DOMAIN ls THEN [it EXCEPT !.note = NoteLocatorsUnknown]
        ELSE IF privKey \notin DOMAIN ls THEN [known EXCEPT !.note = NoteNoPrivateKey]
        ELSE IF ~priv.ok THEN caught(priv, <<>>)
        ELSE IF ~keyJson.ok THEN caught(keyJson, <<>>)
        ELSE IF "encrypted_key_b64" \notin DOMAIN keyJson.value
             THEN [known EXCEPT !.note = NoteNoDataKey]
        ELSE IF ~encKey.ok THEN caught(encKey, <<>>)
        ELSE IF ~rawKey.ok THEN caught(rawKey, <<"rsaOaepDecrypt">>)
        ELSE IF ~contentJson.ok THEN caught(contentJson, <<"rsaOaepDecrypt">>)
        ELSE IF ~ct.ok THEN caught(ct, <<"rsaOaepDecrypt">>)
        ELSE IF ~plaintext.ok
             THEN caught(plaintext, <<"rsaOaepDecrypt", "aesDecrypt">>)
        ELSE IF sha # it.sha256Hash
             THEN [known EXCEPT !.note = NoteIntegrityMismatch,
                                !.calls = <<"rsaOaepDecrypt", "aesDecrypt", "sha256Bytes">>]
        ELSE [known EXCEPT !.plaintext = plaintext.value,
                           !.calls = <<"rsaOaepDecrypt", "aesDecrypt", "sha256Bytes">>]

\* tryDecrypt(me, it): the item with its plaintext or with a note; calls lists
\* the cryptographic operations it went through.
tryDecrypt(ls, me, it) ==
    LET mapKey == "msgmap:" \o ToString(it.id)
        privKey == "rsa:priv:" \o me
        map == JSONparse(ls[mapKey])
        known == [it EXCEPT !.contentCID = map.contentCID, !.keyCID = map.keyCID]
        caught(r, calls) == [known EXCEPT !.note = r.error, !.calls = calls]
        priv == importRsaPrivateKeyJwk(JSONparse(ls[privKey]))
        keyJson == ipfsGetJson(ls, map.keyCID)
        encKey == base64ToBytes(keyJson.value.encrypted_key_b64)
        rawKey == rsaOaepDecrypt(priv.value, encKey.value)
        aesKey == aesImportRaw(rawKey.value)
        contentJson == ipfsGetJson(ls, map.contentCID)
        iv == hexToBytes(contentJson.value.iv)
        ct == base64ToBytes(contentJson.value.ciphertext_b64)
        sha == sha256Bytes(ct.value)
        plaintext == aesDecrypt(ct.value, aesKey, iv)
    IN  IF mapKey \notin DOMAIN ls THEN [it EXCEPT !.note = NoteLocatorsUnknown]
        ELSE IF privKey \notin DOMAIN ls THEN [known EXCEPT !.note = NoteNoPrivateKey]
        ELSE IF ~priv.ok THEN caught(priv, <<>>)
        ELSE IF ~keyJson.ok THEN caught(keyJson, <<>>)
        ELSE IF "encrypted_key_b64" \notin DOMAIN keyJson.value
             THEN [known EXCEPT !.note = NoteNoDataKey]
        ELSE IF ~encKey.ok THEN caught(encKey, <<>>)
        ELSE IF ~rawKey.ok THEN caught(rawKey, <<"rsaOaepDecrypt">>)
        ELSE IF ~contentJson.ok THEN caught(contentJson, <<"rsaOaepDecrypt">>)
        ELSE IF ~ct.ok THEN caught(ct, <<"rsaOaepDecrypt">>)
        ELSE IF sha # it.sha256Hash
             THEN [known EXCEPT !.note = NoteIntegrityMismatch,
                                !.calls = <<"rsaOaepDecrypt", "sha256Bytes">>]
        ELSE IF ~plaintext.ok
             THEN caught(plaintext, <<"rsaOaepDecrypt", "sha256Bytes", "aesDecrypt">>)
        ELSE [known EXCEPT !.plaintext = plaintext.value,
                           !.calls = <<"rsaOaepDecrypt", "sha256Bytes", "aesDecrypt">>]

\* The user me pastes the public JWK of a key pair and clicks Register Key.
OnRegister(me, kp) ==
    /\ tab = "register"
    /\ Cardinality(Blobs(localStorage)) < MaxBlobs
    /\ LET r == onRegister(Storage, localStorage, me, blockTimestamp, PublicJwk(kp)) IN
       /\ Apply(r.tx)
       /\ localStorage' = r.ls
    /\ UNCHANGED <<blockTimestamp, receipt, items, sendPage, tab, viewVars, runs>>

\* savePriv: the user me pastes the private JWK of a key pair and saves it.
SavePriv(me, kp) ==
    /\ tab = "inbox"
    /\ localStorage' = setItem(localStorage, "rsa:priv:" \o me, JSONstringify(PrivateJwk(kp)))
    /\ UNCHANGED <<ledgerVars, blockTimestamp, receipt, items, sendPage, tab, viewVars, runs>>

\* The user me types a recipient and a message and clicks Send.
OnSend(me, recipient, message, aesKey, iv) ==
    /\ tab = "send"
    /\ LET r == onSend(Storage, localStorage, me, blockTimestamp, recipient, message,
                       aesKey, iv) IN
       /\ Cardinality(Blobs(r.ls)) <= MaxBlobs
       /\ Apply(r.tx)
       /\ localStorage' = r.ls
       /\ sendPage' = [sendPage EXCEPT ![me] = [recipient |-> recipient,
                                                message |-> message,
                                                status |-> r.status]]
    /\ UNCHANGED <<blockTimestamp, receipt, items, tab, viewVars, runs>>

\* The content envelope under uri is as onSend put it.
AsPut(env) ==
    /\ env.ciphertext_b64.valid
    /\ Intact(env.ciphertext_b64.b64)
    /\ hexToBytes(env.iv) = SealedIv(env.ciphertext_b64.b64)

\* Somebody with access to the store alters a content envelope before the
\* Inbox is opened: bits of the ciphertext, characters of its base64 text, or
\* the iv next to it.
Tamper(uri, how) ==
    /\ tab # "inbox"
    /\ uri \in Blobs(localStorage)
    /\ "ciphertext_b64" \in DOMAIN JSONparse(localStorage[uri])
    /\ LET env == JSONparse(localStorage[uri])
           ct == env.ciphertext_b64.b64
           altered ==
               CASE how = "bits" ->
                        [env EXCEPT !.ciphertext_b64 = bytesToBase64([ct EXCEPT ![4] = FALSE])]
                 [] how = "text" -> [env EXCEPT !.ciphertext_b64.valid = FALSE]
                 [] how = "iv" -> [env EXCEPT !.iv = bytesToHex(ZeroIV)]
       IN  /\ AsPut(env)
           /\ localStorage' = setItem(localStorage, uri, JSONstringify(altered))
    /\ UNCHANGED <<ledgerVars, blockTimestamp, receipt, items, sendPage, tab, viewVars, runs>>

\* setTab("send") / setTab("register"): the page shown is unmounted and its
\* state is gone (the cleanup of the Inbox effect clears alive and takes the
\* handler off), the other page is mounted.
SetTab(t) ==
    /\ t # tab
    /\ tab' = t
    /\ items' = [u \in Users |-> <<>>]
    /\ sendPage' = [u \in Users |-> NoSend]
    /\ inbox' = NoInbox
    /\ deliveries' = <<>>
    /\ UNCHANGED <<ledgerVars, blockTimestamp, receipt, localStorage, runs>>

\* setTab("inbox") with the wallet connected as me: the Inbox page is
\* mounted, the past logs are loaded and every item goes through tryDecrypt,
\* with nothing else running until setItems.
LoadInbox(me) ==
    /\ tab # "inbox"
    /\ tab' = "inbox"
    /\ LET base == preloadFromLogs(eventLog, me) IN
       items' = [u \in Users |->
                    IF u = me
                    THEN [k \in DOMAIN base |-> tryDecrypt(localStorage, me, base[k])]
                    ELSE <<>>]
    /\ sendPage' = [u \in Users |-> NoSend]
    /\ UNCHANGED <<ledgerVars, blockTimestamp, receipt, localStorage, viewVars, runs>>

EnvelopeNext ==
    \/ \E me \in Readers : \E kp \in KeyPairs : OnRegister(me, kp)
    \/ \E me \in Readers : \E kp \in KeyPairs : SavePriv(me, kp)
    \/ /\ nextMessageId <= EnvelopeMessages
       /\ \E me \in Writers : \E recipient \in Readers : \E message \in Plaintexts :
            \E aesKey \in AesKeys : \E iv \in DrawnIVs(localStorage) :
                /\ blockTimestamp - lastSentAt[me] >= minIntervalSeconds
                /\ OnSend(me, recipient, message, aesKey, iv)
    \/ \E uri \in LocalURIs : \E how \in {"bits", "text", "iv"} : Tamper(uri, how)
    \/ \E t \in {"send", "register"} : SetTab(t)
    \/ \E me \in Readers : LoadInbox(me)
    \/ MineBlock(RegistryTimes)

EnvelopeSpec == Init /\ [][EnvelopeNext]_vars

-----------------------------------------------------------------------------
(* Inbox.tsx: the effect of the Inbox page, await by await *)

\* How often MessageSent of the id was passed to the handler of this mount.
Delivered(id) == IF id \in DOMAIN deliveries THEN deliveries[id] ELSE 0

\* Lines 111-127, which run without an await after the last tryDecrypt of the
\* loop: setItems(enriched), and contract.on(filter, handler), which passes
\* the handler the MessageSent logs of the blocks mined from then on.
Loaded(run, enriched) ==
    [run EXCEPT !.pc = "live", !.enriched = enriched, !.from = Len(eventLog)]

\* setTab("inbox") with the wallet connected as me: the effect of the Inbox
\* page starts and preloadFromLogs queries the past logs (lines 95-108).
MountInbox(me) ==
    /\ tab # "inbox"
    /\ tab' = "inbox"
    /\ sendPage' = [u \in Users |-> NoSend]
    /\ deliveries' = <<>>
    /\ LET base == preloadFromLogs(eventLog, me)
           run == [NoInbox EXCEPT !.pc = "decrypt", !.me = me, !.base = base]
       IN  /\ inbox' = IF base = <<>> THEN Loaded(run, <<>>) ELSE run
           /\ items' = [u \in Users |-> <<>>]
    /\ UNCHANGED <<ledgerVars, blockTimestamp, receipt, localStorage, runs>>

\* The loop that goes on to lines 113-128 without the test of line 112.
DecryptNextUnchecked ==
    /\ inbox.pc = "decrypt"
    /\ LET k == Len(inbox.enriched) + 1
           enriched == Append(inbox.enriched, tryDecrypt(localStorage, inbox.me, inbox.base[k]))
       IN  IF k < Len(inbox.base)
           THEN /\ inbox' = [inbox EXCEPT !.enriched = enriched]
                /\ UNCHANGED items
           ELSE /\ inbox' = Loaded(inbox, enriched)
                /\ items' = [items EXCEPT ![inbox.me] = enriched]
    /\ UNCHANGED <<ledgerVars, blockTimestamp, receipt, localStorage, sendPage, tab,
                   deliveries, runs>>

\* One turn of the loop of line 110: await tryDecrypt(me, it) of the next item
\* of base; after the last one, if (!alive) return of line 112, and then
\* lines 113-128.
DecryptNext ==
    /\ inbox.pc = "decrypt"
    /\ LET k == Len(inbox.enriched) + 1
           enriched == Append(inbox.enriched, tryDecrypt(localStorage, inbox.me, inbox.base[k]))
       IN  IF k < Len(inbox.base)
           THEN /\ inbox' = [inbox EXCEPT !.enriched = enriched]
                /\ UNCHANGED items
           ELSE IF ~inbox.alive
           THEN /\ inbox' = [inbox EXCEPT !.pc = "ended", !.enriched = enriched]
                /\ UNCHANGED items
           ELSE /\ inbox' = Loaded(inbox, enriched)
                /\ items' = [items EXCEPT ![inbox.me] = enriched]
    /\ UNCHANGED <<ledgerVars, blockTimestamp, receipt, localStorage, sendPage, tab,
                   deliveries, runs>>

\* The handler of lines 117-126 is passed the MessageSent log at position i
\* of the chain's log: a log to me, of a block mined after contract.on.
Handler(i) ==
    /\ inbox.pc = "live"
    /\ i \in DOMAIN eventLog
    /\ i > inbox.from
    /\ eventLog[i].recipient = inbox.me
    /\ Delivered(eventLog[i].id) < MaxDeliveries
    /\ deliveries' = (eventLog[i].id :> (Delivered(eventLog[i].id) + 1)) @@ deliveries
    /\ items' = [items EXCEPT ![inbox.me] =
                    <<tryDecrypt(localStorage, inbox.me, BaseItem(eventLog[i]))>> \o @]
    /\ UNCHANGED <<ledgerVars, blockTimestamp, receipt, localStorage, sendPage, tab, inbox, runs>>

\* onSend run by me in another window of the same browser.
OnSendElsewhere(me, recipient, message, aesKey, iv) ==
    /\ LET r == onSend(Storage, localStorage, me, blockTimestamp, recipient, message,
                       aesKey, iv) IN
       /\ Cardinality(Blobs(r.ls)) <= InboxBlobs
       /\ Apply(r.tx)
       /\ localStorage' = r.ls
    /\ UNCHANGED <<blockTimestamp, receipt, items, sendPage, tab, viewVars, runs>>

InboxNext ==
    \/ \E me \in Readers : OnRegister(me, "kp1")
    \/ \E me \in Readers : \E kp \in KeyPairs : SavePriv(me, kp)
    \/ \E uri \in LocalURIs : Tamper(uri, "bits")
    \/ /\ nextMessageId <= InboxMessages
       /\ \E me \in Writers : \E recipient \in Readers : \E iv \in DrawnIVs(localStorage) :
            /\ blockTimestamp - lastSentAt[me] >= minIntervalSeconds
            /\ OnSendElsewhere(me, recipient, <<"a">>, "k1", iv)
    \/ SetTab("register")
    \/ \E me \in Readers : MountInbox(me)
    \/ DecryptNext
    \/ \E i \in 1..InboxMessages : Handler(i)
    \/ MineBlock(RegistryTimes)

InboxSpec == Init /\ [][InboxNext]_vars

\* The awaits of the effect resolve, and the provider passes every log of
\* the subscription to the handler at least once.
InboxFairSpec ==
    /\ InboxSpec
    /\ WF_vars(DecryptNext)
    /\ \A i \in 1..InboxMessages : WF_vars(Handler(i) /\ Delivered(eventLog[i].id) = 0)

-----------------------------------------------------------------------------
(* Inbox.tsx: the effect of the Inbox page and its cleanup *)

\* The Inbox page is mounted and unmounted while at most this many messages
\* are accepted.
TeardownMessages == 2

\* setTab("inbox") with the wallet connected as me: the Inbox page is mounted
\* and its effect starts; the async function of line 96 waits for
\* getSignerAndContract() and signer.getAddress() (lines 98-99).
StartEffect(me) ==
    /\ tab # "inbox"
    /\ tab' = "inbox"
    /\ sendPage' = [u \in Users |-> NoSend]
    /\ items' = [u \in Users |-> <<>>]
    /\ deliveries' = <<>>
    /\ inbox' = [NoInbox EXCEPT !.pc = "wallet", !.me = me]
    /\ UNCHANGED <<ledgerVars, blockTimestamp, receipt, localStorage, runs>>

\* Line 99: the address is there; if (!alive) return, otherwise the function
\* goes on to getCode and preloadFromLogs (lines 102-108).
WalletDone ==
    /\ inbox.pc = "wallet"
    /\ inbox' = [inbox EXCEPT !.pc = IF inbox.alive THEN "load" ELSE "ended"]
    /\ UNCHANGED <<ledgerVars, blockTimestamp, receipt, localStorage, items, sendPage, tab,
                   deliveries, runs>>

\* Line 108: queryFilter returns the past logs. With logs the loop of line
\* 110 starts; with none the function is at line 112 at once.
LoadDone ==
    /\ inbox.pc = "load"
    /\ LET base == preloadFromLogs(eventLog, inbox.me)
           run == [inbox EXCEPT !.pc = "decrypt", !.base = base]
       IN  IF base # <<>>
           THEN /\ inbox' = run
                /\ UNCHANGED items
           ELSE IF ~inbox.alive
           THEN /\ inbox' = [run EXCEPT !.pc = "ended"]
                /\ UNCHANGED items
           ELSE /\ inbox' = Loaded(run, <<>>)
                /\ items' = [items EXCEPT ![inbox.me] = <<>>]
    /\ UNCHANGED <<ledgerVars, blockTimestamp, receipt, localStorage, sendPage, tab,
                   deliveries, runs>>

\* The provider passes the MessageSent log at position i to the handler, which
\* is subscribed: lines 117-123, up to the await of tryDecrypt.
HandlerCall(i) ==
    /\ inbox.pc = "live"
    /\ i \in DOMAIN eventLog
    /\ i > inbox.from
    /\ eventLog[i].recipient = inbox.me
    /\ Delivered(eventLog[i].id) < MaxDeliveries
    /\ deliveries' = (eventLog[i].id :> (Delivered(eventLog[i].id) + 1)) @@ deliveries
    /\ inbox' = [inbox EXCEPT !.pending = Append(@, i)]
    /\ UNCHANGED <<ledgerVars, blockTimestamp, receipt, localStorage, items, sendPage, tab,
                   runs>>

\* Lines 124-126 of the oldest call of the handler that is waiting:
\* tryDecrypt has returned, if (!alive) return, setItems(prev => [enriched, ...prev]).
HandlerReturn ==
    /\ inbox.pending # <<>>
    /\ inbox' = [inbox EXCEPT !.pending = Tail(@)]
    /\ items' = IF ~inbox.alive THEN items
                ELSE [items EXCEPT ![inbox.me] =
                         <<tryDecrypt(localStorage, inbox.me,
                                      BaseItem(eventLog[Head(inbox.pending)]))>> \o @]
    /\ UNCHANGED <<ledgerVars, blockTimestamp, receipt, localStorage, sendPage, tab,
                   deliveries, runs>>

\* setTab("register") while the Inbox page is shown: the page is unmounted,
\* its state is gone, and the cleanup of line 131 runs: alive = false, and
\* unsub(), that is contract.off(filter, handler), when line 128 has set it.
\* The async function and the calls of the handler that are waiting go on.
Unmount ==
    /\ tab = "inbox"
    /\ inbox.pc # "idle" /\ inbox.alive
    /\ tab' = "register"
    /\ items' = [u \in Users |-> <<>>]
    /\ sendPage' = [u \in Users |-> NoSend]
    /\ inbox' = [inbox EXCEPT !.alive = FALSE, !.pc = IF @ = "live" THEN "off" ELSE @]
    /\ UNCHANGED <<ledgerVars, blockTimestamp, receipt, localStorage, deliveries, runs>>

\* The async function of the effect has returned or stopped at its
\* subscription, and no call of the handler is waiting.
EffectSettled == inbox.pc \in {"idle", "ended", "off"} /\ inbox.pending = <<>>

\* The Inbox page is mounted again once the effect of the page before it has
\* settled; messages arrive from another window all along.
TeardownNext ==
    \/ \E me \in Readers : OnRegister(me, "kp1")
    \/ /\ nextMessageId <= TeardownMessages
       /\ \E me \in Writers : \E recipient \in Readers : \E iv \in DrawnIVs(localStorage) :
            /\ blockTimestamp - lastSentAt[me] >= minIntervalSeconds
            /\ OnSendElsewhere(me, recipient, <<"a">>, "k1", iv)
    \/ /\ EffectSettled
       /\ \E me \in Readers : StartEffect(me)
    \/ WalletDone
    \/ LoadDone
    \/ DecryptNext
    \/ \E i \in 1..TeardownMessages : HandlerCall(i)
    \/ HandlerReturn
    \/ Unmount
    \/ MineBlock(RegistryTimes)

TeardownSpec == Init /\ [][TeardownNext]_vars

-----------------------------------------------------------------------------
(* Send.tsx: onSend await by await, in two windows of one browser *)

\* Lines 29-61: the message is encrypted, the key envelope and the content
\* envelope are put, and the nonce is lastNonce(me) + 1 as read at line 60.
onSendPrepare(S, ls, me, recipient, message, aesKey, iv) ==
    LET enc == aesEncrypt(message, aesKey, iv)
        sha == sha256Bytes(enc.ciphertext)
        key == KeyEnvelope(S, ls, recipient, aesKey)
        content == ipfsPutJson(key.ls, [algo |-> "AES-256-GCM", v |-> 1,
                                        iv |-> bytesToHex(enc.iv),
                                        ciphertext_b64 |-> bytesToBase64(enc.ciphertext)])
    IN  [args |-> [recipient |-> recipient, contentCID |-> content.uri,
                   keyCID |-> key.uri, sha256Hash |-> hexToBytes(sha),
                   iv |-> hexToBytes(bytesToHex(enc.iv)),
                   nonce |-> S.lastNonce[me] + 1,
                   sigV |-> 0, sigR |-> ZeroSigR, sigS |-> 0],
         ls |-> content.ls, contentCID |-> content.uri, keyCID |-> key.uri]

\* onSendFinish that writes the correlation record whatever the receipt says.
onSendFinishAlwaysRecords(ls, r, id, contentCID, keyCID) ==
    [ls |-> setItem(ls, "msgmap:" \o ToString(id),
                    JSONstringify([contentCID |-> contentCID, keyCID |-> keyCID])),
     status |-> IF r.status # "ok" THEN SendStatus("Send failed: " \o r.status, "", "")
                ELSE SendStatus("Sent!", contentCID, keyCID)]

\* Lines 75-89 once tx.wait() has the receipt r of the mined transaction: the
\* correlation record under the id of the MessageSent log and "Sent!", or the
\* catch when the transaction was reverted. id is the id the log carries.
onSendFinish(ls, r, id, contentCID, keyCID) ==
    IF r.status # "ok"
    THEN [ls |-> ls, status |-> SendStatus("Send failed: " \o r.status, "", "")]
    ELSE [ls |-> setItem(ls, "msgmap:" \o ToString(id),
                         JSONstringify([contentCID |-> contentCID, keyCID |-> keyCID])),
          status |-> SendStatus("Sent!", contentCID, keyCID)]

\* The id of the MessageSent log of a receipt; the next id when there is none.
LogId(S, r) == IF r.status = "ok" THEN r.logs[1].id ELSE S.nextMessageId

\* The user me clicks Send in window w: lines 17-61.
StartRun(w, me, recipient, message, aesKey, iv) ==
    /\ runs[w].pc = "idle"
    /\ LET p == onSendPrepare(Storage, localStorage, me, recipient, message, aesKey, iv) IN
       /\ Cardinality(Blobs(p.ls)) <= RunBlobs
       /\ localStorage' = p.ls
       /\ runs' = [runs EXCEPT ![w] = [NoRun EXCEPT !.pc = "read", !.me = me,
                                                    !.args = p.args,
                                                    !.contentCID = p.contentCID,
                                                    !.keyCID = p.keyCID]]
    /\ UNCHANGED <<ledgerVars, blockTimestamp, receipt, items, sendPage, tab, viewVars>>

\* Line 64, contract.sendMessage(...): the call is simulated on the current
\* state; a revert throws into the catch of line 87, otherwise the
\* transaction is sent and waits to be mined.
Submit(w) ==
    /\ runs[w].pc = "read"
    /\ LET r == sendMessage(Storage, runs[w].me, blockTimestamp, runs[w].args) IN
       runs' = [runs EXCEPT ![w] =
                   IF r.status = "ok"
                   THEN [@ EXCEPT !.pc = "wait", !.tx = "pending", !.submits = @ + 1]
                   ELSE [@ EXCEPT !.pc = "done", !.submits = @ + 1,
                                  !.status = SendStatus("Send failed: " \o r.status, "", "")]]
    /\ UNCHANGED <<ledgerVars, blockTimestamp, receipt, localStorage, items, sendPage, tab,
                   viewVars>>

\* The transaction of the run of window w is mined in the current block.
Mine(w) ==
    /\ runs[w].tx = "pending"
    /\ LET r == sendMessage(Storage, runs[w].me, blockTimestamp, runs[w].args) IN
       /\ Apply(r)
       /\ runs' = [runs EXCEPT ![w].tx = "mined",
                               ![w].result = [status |-> r.status, id |-> LogId(Storage, r)]]
    /\ UNCHANGED <<blockTimestamp, receipt, localStorage, items, sendPage, tab, viewVars>>

\* The run that sends the transaction again when tx.wait() throws.
WaitFailsResubmits(w) ==
    /\ runs[w].pc = "wait"
    /\ runs[w].submits <= 1
    /\ runs' = [runs EXCEPT ![w].tx = "pending", ![w].submits = @ + 1,
                            ![w].args.nonce = lastNonce[runs[w].me] + 1]
    /\ UNCHANGED <<ledgerVars, blockTimestamp, receipt, localStorage, items, sendPage, tab,
                   viewVars>>

\* Line 75, tx.wait(), throws (the connection to the node is lost, the wait
\* times out) whether or not the transaction is mined: the catch of line 87.
WaitFails(w) ==
    /\ runs[w].pc = "wait"
    /\ runs' = [runs EXCEPT ![w].pc = "done",
                            ![w].status = SendStatus("Send failed: timeout", "", "")]
    /\ UNCHANGED <<ledgerVars, blockTimestamp, receipt, localStorage, items, sendPage, tab,
                   viewVars>>

\* Line 75, tx.wait(), returns the receipt or throws for a reverted
\* transaction: lines 77-89.
Wait(w) ==
    /\ runs[w].pc = "wait"
    /\ runs[w].tx = "mined"
    /\ LET f == onSendFinish(localStorage, runs[w].result, runs[w].result.id,
                             runs[w].contentCID, runs[w].keyCID) IN
       /\ localStorage' = f.ls
       /\ runs' = [runs EXCEPT ![w].pc = "done", ![w].status = f.status]
    /\ UNCHANGED <<ledgerVars, blockTimestamp, receipt, items, sendPage, tab, viewVars>>

SendRunNext ==
    \/ \E w \in Windows : \E me \in Writers : \E recipient \in Readers :
         \E iv \in DrawnIVs(localStorage) : StartRun(w, me, recipient, <<"a">>, "k1", iv)
    \/ \E w \in Windows : Submit(w)
    \/ \E w \in Windows : Mine(w)
    \/ \E w \in Windows : Wait(w)
    \/ \E w \in Windows : WaitFails(w)
    \/ SetTab("register")
    \/ \E me \in Readers : OnRegister(me, "kp1")
    \/ /\ receipt.op = "none"
       /\ \E me \in Readers : RegisterRSAPublicKey(me, "fp1", "local://key1")
    \/ TakeReceipt
    \/ MineBlock(RegistryTimes)

SendRunSpec == Init /\ [][SendRunNext]_vars

-----------------------------------------------------------------------------
(* Long runs: unsigned calls with valid input only, more messages, more blocks *)

LongRunFields(sender) ==
    [recipient : Users, contentCID : ContentCIDs, keyCID : KeyCIDs,
     sha256Hash : Hashes \ {ZeroHash}, iv : IVs \ {ZeroIV},
     nonce : {lastNonce[sender] + d : d \in 0..MaxSkip}]

LongRunNext ==
    \/ /\ receipt.op = "none"
       /\ nextMessageId <= LongRunMessages
       /\ \E sender \in Senders : \E b \in LongRunFields(sender) :
            SendMessage(sender, SendArgs(b, ZeroSig))
    \/ TakeReceipt
    \/ MineBlock(LongRunTimes)

LongRunSpec == Init /\ [][LongRunNext]_vars

-----------------------------------------------------------------------------
(* What a step and its receipt say, in the words of the specification *)

\* The step is a sendMessage transaction: its sender is receipt'.from, its
\* arguments are receipt'.args, and the unprimed variables are the ledger
\* before the call.
IsSend == receipt.op = "none" /\ receipt'.op = "sendMessage"

\* The failure kind of a revert reason.
FailureKind(status) ==
    CASE status \in {"recipient=0", "sha256Hash=0", "iv=0"} -> "InvalidInput"
      [] status = "rate-limited" -> "RateLimited"
      [] status = "IV already used" -> "DuplicateIV"
      [] status = "bad nonce" -> "BadNonce"
      [] status = "bad signature" -> "BadSignature"
      [] status = "ok" -> "Accepted"
      [] OTHER -> "Other"

\* The candidate a has a null recipient, a zero digest or a zero iv.
BadInput(a) == a.recipient = ZeroAddress \/ a.sha256Hash = ZeroHash \/ a.iv = ZeroIV

\* Less than minInterval has passed since lastSentAt[s].
TooSoon(s) == blockTimestamp - lastSentAt[s] < minIntervalSeconds

\* Some accepted message has the triple (s, a.recipient, a.iv).
TripleAccepted(s, a) ==
    \E id \in DOMAIN messages :
        /\ messages[id].sender = s
        /\ messages[id].recipient = a.recipient
        /\ messages[id].iv = a.iv

\* The nonce is not the next one of s.
WrongNonce(s, a) == a.nonce # lastNonce[s] + 1

\* Any of the three signature components is non-zero.
Signed(a) == ~(a.sigV = 0 /\ a.sigR = ZeroSigR /\ a.sigS = 0)

\* The signer recovered from the signature over the canonical commitment
\* (sender, recipient, ledger time, digest, iv, both locator commitments, nonce).
RecoveredSigner(s, a) ==
    ecrecover(
        EthMsgHash(CommitHash(s, a.recipient, blockTimestamp, a.sha256Hash, a.iv,
                              keccak256(a.contentCID), keccak256(a.keyCID), a.nonce)),
        a.sigV, a.sigR, a.sigS)

\* The nonces of the accepted messages of s, in acceptance order.
AcceptedNonces(s) ==
    LET own == SelectSeq(eventLog, LAMBDA e : e.sender = s)
    IN  [k \in 1..Len(own) |-> own[k].nonce]

-----------------------------------------------------------------------------
(* C1 *)

\* C1: for every sender, the nonces of its accepted messages, in acceptance
\* order, are exactly 1, 2, ..., n: no gap and no repeat.
C1_NoncesAreSequential ==
    \A s \in Senders : \A k \in DOMAIN AcceptedNonces(s) : AcceptedNonces(s)[k] = k

\* A sender had a third call accepted, and the other sender one in between.
C1_Witness ==
    /\ receipt.op = "sendMessage" /\ receipt.status = "ok"
    /\ Len(AcceptedNonces(receipt.from)) = 3
    /\ \E s \in Senders \ {receipt.from} : Len(AcceptedNonces(s)) = 1

-----------------------------------------------------------------------------
(* C2 *)

\* No two accepted messages have the same (sender, recipient, iv).
AtMostOnePerTriple ==
    \A i, j \in DOMAIN messages :
        (/\ messages[i].sender = messages[j].sender
         /\ messages[i].recipient = messages[j].recipient
         /\ messages[i].iv = messages[j].iv) => i = j

\* C2 as stated: at most one message per triple, and a call that reuses an
\* accepted triple fails with DuplicateIV whatever its nonce and its time.
C2_ReuseAlwaysDuplicateIV ==
    [][/\ AtMostOnePerTriple'
       /\ (IsSend /\ TripleAccepted(receipt'.from, receipt'.args))
            => FailureKind(receipt'.status) = "DuplicateIV"]_vars

\* C2, amended: at most one message per triple; a call that reuses an accepted
\* triple always fails, with DuplicateIV whenever its input is valid and the
\* rate limit of the sender has passed, whatever its nonce and its signature,
\* and with InvalidInput or RateLimited otherwise.
C2_ReuseAlwaysFails ==
    [][/\ AtMostOnePerTriple'
       /\ (IsSend /\ TripleAccepted(receipt'.from, receipt'.args))
            => LET s == receipt'.from
                   a == receipt'.args
                   kind == FailureKind(receipt'.status)
               IN  /\ kind \in {"InvalidInput", "RateLimited", "DuplicateIV"}
                   /\ BadInput(a) => kind = "InvalidInput"
                   /\ (~BadInput(a) /\ TooSoon(s)) => kind = "RateLimited"
                   /\ (~BadInput(a) /\ ~TooSoon(s)) => kind = "DuplicateIV"]_vars

\* A reused triple was rejected as DuplicateIV although the nonce was wrong
\* and the signature was not the sender's.
C2_Witness ==
    /\ receipt.op = "sendMessage" /\ receipt.status = "IV already used"
    /\ TripleAccepted(receipt.from, receipt.args)
    /\ WrongNonce(receipt.from, receipt.args)
    /\ Signed(receipt.args) /\ RecoveredSigner(receipt.from, receipt.args) # receipt.from

-----------------------------------------------------------------------------
(* C3 *)

\* C3 as stated: a call made less than minInterval after the last accepted
\* message of its sender fails with RateLimited, and one made at minInterval or
\* more after it succeeds.
C3_RateLimitDecides ==
    [][(IsSend /\ outboxIndex[receipt'.from] # <<>>)
        => LET s == receipt'.from
           IN  /\ TooSoon(s) => FailureKind(receipt'.status) = "RateLimited"
               /\ ~TooSoon(s) => receipt'.status = "ok"]_vars

\* C3, amended: a call with valid input made less than minInterval (the value
\* in force at the call) after lastSentAt[sender] fails with RateLimited; one
\* made at exactly minInterval or more after it is never RateLimited, and
\* succeeds when its input is valid, its IV unused, its nonce the next one and
\* its signature, if any, the sender's.
C3_RateLimitBoundary ==
    [][IsSend
        => LET s == receipt'.from
               a == receipt'.args
               kind == FailureKind(receipt'.status)
           IN  /\ (~BadInput(a) /\ TooSoon(s)) => kind = "RateLimited"
               /\ ~TooSoon(s) => kind # "RateLimited"
               /\ (/\ ~TooSoon(s) /\ ~BadInput(a) /\ ~TripleAccepted(s, a)
                   /\ ~WrongNonce(s, a)
                   /\ Signed(a) => RecoveredSigner(s, a) = s) => kind = "Accepted"]_vars

\* The second message of a sender was accepted exactly minInterval after its first.
C3_Witness ==
    /\ receipt.op = "sendMessage" /\ receipt.status = "ok"
    /\ minIntervalSeconds = DefaultMinInterval
    /\ LET out == outboxIndex[receipt.from]
       IN  /\ Len(out) = 2
           /\ messages[out[2]].timestamp - messages[out[1]].timestamp = minIntervalSeconds

-----------------------------------------------------------------------------
(* C4 *)

\* The outcome the specification's order of checks gives the call.
FirstFailure(s, a) ==
    IF BadInput(a) THEN "InvalidInput"
    ELSE IF TooSoon(s) THEN "RateLimited"
    ELSE IF TripleAccepted(s, a) THEN "DuplicateIV"
    ELSE IF WrongNonce(s, a) THEN "BadNonce"
    ELSE IF Signed(a) /\ RecoveredSigner(s, a) # s THEN "BadSignature"
    ELSE "Accepted"

\* C4: sendMessage checks in the order InvalidInput, RateLimited, DuplicateIV,
\* BadNonce, BadSignature and reports the earliest check that fails.
C4_FirstFailureReported ==
    [][IsSend => FailureKind(receipt'.status) = FirstFailure(receipt'.from, receipt'.args)]_vars

\* A call that was too soon, reused a triple, had a wrong nonce and a signature
\* of somebody else was reported as RateLimited.
C4_Witness ==
    /\ receipt.op = "sendMessage" /\ receipt.status = "rate-limited"
    /\ TripleAccepted(receipt.from, receipt.args)
    /\ WrongNonce(receipt.from, receipt.args)
    /\ Signed(receipt.args) /\ RecoveredSigner(receipt.from, receipt.args) # receipt.from

-----------------------------------------------------------------------------
(* C5 *)

\* C5: a rejected sendMessage changes nothing (lastSentAt, usedIV, lastNonce,
\* nextMessageId, messages, both indices, and the rest of the storage) and
\* emits no MessageSent.
C5_RejectedChangesNothing ==
    [][(IsSend /\ receipt'.status # "ok")
        => /\ UNCHANGED ledgerVars
           /\ receipt'.logs = <<>>]_vars

\* A call was rejected for its signature, after the rate-limit, IV and nonce
\* checks had passed and written lastSentAt, usedIV and lastNonce.
C5_Witness ==
    /\ receipt.op = "sendMessage" /\ receipt.status = "bad signature"
    /\ receipt.undone

-----------------------------------------------------------------------------
(* C6 *)

\* C6 as stated: a call whose nonce is lastNonce[sender] + 2 fails with
\* BadNonce whatever its other fields.
C6_SkippedNonceAlwaysBadNonce ==
    [][(IsSend /\ receipt'.args.nonce = lastNonce[receipt'.from] + 2)
        => FailureKind(receipt'.status) = "BadNonce"]_vars

\* C6, amended: a call whose nonce is lastNonce[sender] + 2 always fails,
\* whatever its other fields: with BadNonce when its input is valid, the rate
\* limit has passed and its IV is unused (whatever its signature), and with the
\* failure of the earlier check (InvalidInput, RateLimited, DuplicateIV) otherwise.
C6_SkippedNonceAlwaysFails ==
    [][(IsSend /\ receipt'.args.nonce = lastNonce[receipt'.from] + 2)
        => LET s == receipt'.from
               a == receipt'.args
               kind == FailureKind(receipt'.status)
               earlier == BadInput(a) \/ TooSoon(s) \/ TripleAccepted(s, a)
           IN  /\ kind \in {"InvalidInput", "RateLimited", "DuplicateIV", "BadNonce"}
               /\ ~earlier => kind = "BadNonce"
               /\ earlier => kind # "BadNonce"
               /\ UNCHANGED lastNonce]_vars

\* A call that skipped a nonce and carried the sender's own valid signature
\* was rejected as BadNonce.
C6_Witness ==
    /\ receipt.op = "sendMessage" /\ receipt.status = "bad nonce"
    /\ receipt.args.nonce = lastNonce[receipt.from] + 2
    /\ Signed(receipt.args) /\ RecoveredSigner(receipt.from, receipt.args) = receipt.from

-----------------------------------------------------------------------------
(* C7 *)

\* C7 as stated: a call with a non-zero signature component whose recovered
\* signer is not the sender fails with BadSignature, and no message is accepted.
C7_ForeignSignatureAlwaysBadSignature ==
    [][(/\ IsSend
        /\ Signed(receipt'.args)
        /\ RecoveredSigner(receipt'.from, receipt'.args) # receipt'.from)
        => /\ FailureKind(receipt'.status) = "BadSignature"
           /\ UNCHANGED <<nextMessageId, messages>>]_vars

\* C7, amended: such a call always fails and no message is accepted; the failure
\* is BadSignature whenever the input, rate-limit, IV and nonce checks pass, and
\* that of the earliest failing one of these checks otherwise.
C7_ForeignSignatureNeverAccepted ==
    [][(/\ IsSend
        /\ Signed(receipt'.args)
        /\ RecoveredSigner(receipt'.from, receipt'.args) # receipt'.from)
        => LET s == receipt'.from
               a == receipt'.args
               kind == FailureKind(receipt'.status)
               earlier == BadInput(a) \/ TooSoon(s) \/ TripleAccepted(s, a)
                            \/ WrongNonce(s, a)
           IN  /\ kind \in {"InvalidInput", "RateLimited", "DuplicateIV", "BadNonce",
                            "BadSignature"}
               /\ ~earlier => kind = "BadSignature"
               /\ earlier => kind # "BadSignature"
               /\ UNCHANGED <<nextMessageId, messages, eventLog>>]_vars

\* Calls were rejected as BadSignature: this one carries only some non-zero
\* components (address(0) is recovered), or charlie's signature, or the sender's
\* own over another timestamp.
C7_Witness ==
    /\ receipt.op = "sendMessage" /\ receipt.status = "bad signature"
    /\ receipt.args.sigV = 0 /\ receipt.args.sigR # ZeroSigR
    /\ RecoveredSigner(receipt.from, receipt.args) = ZeroAddress

-----------------------------------------------------------------------------
(* C8 *)

\* C8: a call whose three signature components are zero never fails with
\* BadSignature, and is accepted exactly when the input, rate-limit, IV and
\* nonce checks pass.
C8_UnsignedSkipsVerification ==
    [][(IsSend /\ ~Signed(receipt'.args))
        => LET s == receipt'.from
               a == receipt'.args
           IN  /\ FailureKind(receipt'.status) # "BadSignature"
               /\ receipt'.status = "ok"
                    <=> (/\ ~BadInput(a) /\ ~TooSoon(s)
                         /\ ~TripleAccepted(s, a) /\ ~WrongNonce(s, a))]_vars

\* A call without signature was accepted, and its message holds the zero signature.
C8_Witness ==
    /\ receipt.op = "sendMessage" /\ receipt.status = "ok"
    /\ ~Signed(receipt.args)
    /\ LET m == messages[nextMessageId - 1]
       IN  m.sigV = 0 /\ m.sigR = ZeroSigR /\ m.sigS = 0

-----------------------------------------------------------------------------
(* C9 *)

\* The ledger holds the messages of sends #1..#n of the scenario and nothing
\* else: alice's, to bob, nonces 1..n, #2 accepted 10 after #1, minInterval 10.
AfterSends(n) ==
    /\ nextMessageId = n + 1
    /\ minIntervalSeconds = 10
    /\ \A id \in 1..n :
        /\ messages[id].sender = "alice" /\ messages[id].recipient = "bob"
        /\ messages[id].nonce = id
    /\ n >= 2 => messages[2].timestamp = messages[1].timestamp + 10

\* alice sends to bob with nonce n, at time t after send #1 (after now, when
\* there is no send #1 yet).
ScenarioSend(n, t) ==
    /\ IsSend
    /\ receipt'.from = "alice" /\ receipt'.args.recipient = "bob"
    /\ receipt'.args.nonce = n
    /\ blockTimestamp = (IF nextMessageId = 1 THEN blockTimestamp
                         ELSE messages[1].timestamp) + t

\* The first three sends of the scenario: #1 at t=0 succeeds, #2 at t=5 is
\* RateLimited, #2 retried at t=10 succeeds.
ScenarioHead ==
    /\ (AfterSends(0) /\ ScenarioSend(1, 0)) => receipt'.status = "ok"
    /\ (AfterSends(1) /\ ScenarioSend(2, 5))
         => FailureKind(receipt'.status) = "RateLimited"
    /\ (AfterSends(1) /\ ScenarioSend(2, 10) /\ receipt'.args.iv # messages[1].iv)
         => receipt'.status = "ok"

\* C9 as stated: ..., and send #3 at t=11 reusing the IV of #1 fails with
\* DuplicateIV.
C9_ScenarioEndsDuplicateIV ==
    [][/\ ScenarioHead
       /\ (AfterSends(2) /\ ScenarioSend(3, 11) /\ receipt'.args.iv = messages[1].iv)
            => FailureKind(receipt'.status) = "DuplicateIV"]_vars

\* C9, amended: ..., and send #3 at t=11 reusing the IV of #1 fails with
\* RateLimited, only 1 < minInterval after #2 was accepted at t=10; sent again
\* at t=20 it fails with DuplicateIV.  The times count from the block time of
\* send #1, which is at least minInterval.
C9_ScenarioEndsRateLimited ==
    [][/\ ScenarioHead
       /\ (AfterSends(2) /\ ScenarioSend(3, 11) /\ receipt'.args.iv = messages[1].iv)
            => FailureKind(receipt'.status) = "RateLimited"
       /\ (AfterSends(2) /\ ScenarioSend(3, 20) /\ receipt'.args.iv = messages[1].iv)
            => FailureKind(receipt'.status) = "DuplicateIV"]_vars

\* Send #3 of the scenario was made at t=11 with the IV of #1, and rejected.
C9_Witness ==
    /\ AfterSends(2)
    /\ receipt.op = "sendMessage" /\ receipt.status # "ok"
    /\ receipt.from = "alice" /\ receipt.args.recipient = "bob"
    /\ receipt.args.nonce = 3 /\ receipt.args.iv = messages[1].iv
    /\ receipt.at = messages[1].timestamp + 11
    /\ messages[1].timestamp = GenesisTime

-----------------------------------------------------------------------------
(* C10 *)

\* No accepted message has a null recipient, a zero digest or a zero iv.
NoNullAccepted ==
    \A id \in DOMAIN messages :
        /\ messages[id].recipient # ZeroAddress
        /\ messages[id].sha256Hash # ZeroHash
        /\ messages[id].iv # ZeroIV

\* C10: a call with a null recipient, a zero digest or a zero iv is rejected
\* with InvalidInput in every ledger state, before anything is written; so no
\* accepted message has a null recipient, a zero digest or a zero iv.
C10_InvalidInputRejectedFirst ==
    [][/\ NoNullAccepted'
       /\ (IsSend /\ BadInput(receipt'.args))
            => /\ FailureKind(receipt'.status) = "InvalidInput"
               /\ ~receipt'.undone
               /\ UNCHANGED ledgerVars]_vars

\* On a ledger that holds a message, a call with a zero iv that would pass
\* every other check was rejected.
C10_Witness ==
    /\ receipt.op = "sendMessage" /\ receipt.status = "iv=0"
    /\ nextMessageId > 1
    /\ ~TooSoon(receipt.from) /\ ~WrongNonce(receipt.from, receipt.args)
    /\ ~Signed(receipt.args)

-----------------------------------------------------------------------------
(* C11 *)

\* The number of positions of seq that hold id.
Occurrences(seq, id) == Cardinality({k \in DOMAIN seq : seq[k] = id})

\* seq is strictly increasing.
Increasing(seq) == \A i, j \in DOMAIN seq : i < j => seq[i] < seq[j]

\* q is p with zero or more elements appended.
Extends(q, p) == Len(p) <= Len(q) /\ \A k \in DOMAIN p : q[k] = p[k]

\* Every accepted id is once in the outbox of its sender and once in the inbox
\* of its recipient, in no other index, and both indices are increasing.
IndicesExact ==
    \A u \in Users :
        /\ \A id \in DOMAIN messages :
            /\ Occurrences(outboxIndex[u], id) = (IF messages[id].sender = u THEN 1 ELSE 0)
            /\ Occurrences(inboxIndex[u], id) = (IF messages[id].recipient = u THEN 1 ELSE 0)
        /\ \A k \in DOMAIN outboxIndex[u] : outboxIndex[u][k] \in DOMAIN messages
        /\ \A k \in DOMAIN inboxIndex[u] : inboxIndex[u][k] \in DOMAIN messages
        /\ Increasing(outboxIndex[u]) /\ Increasing(inboxIndex[u])

\* C11: after any sequence of operations every accepted id is exactly once in
\* the outbox index of its sender and exactly once in the inbox index of its
\* recipient, in no other identity's index, both indices are strictly
\* increasing, and every step only appends to them.
C11_IndicesAppendOnly ==
    [][/\ IndicesExact'
       /\ \A u \in Users :
            /\ Extends(getOutboxIds(Storage, u)', getOutboxIds(Storage, u))
            /\ Extends(getInboxIds(Storage, u)', getInboxIds(Storage, u))]_vars

\* An identity has received two messages, one of them its own, and sent
\* another one to somebody else: its inbox and its outbox differ.
C11_Witness ==
    \E u \in Users :
        /\ Len(inboxIndex[u]) = 2 /\ Len(outboxIndex[u]) = 2
        /\ inboxIndex[u] # outboxIndex[u]
        /\ \E k \in 1..2 : messages[inboxIndex[u][k]].sender = u

-----------------------------------------------------------------------------
(* C12 *)

\* C12: the ids are 1, 2, ... in acceptance order over all senders: the k-th
\* accepted message has id k, a rejected call consumes no id, and nextMessageId
\* is the number of accepted messages plus 1.
C12_IdsCountAccepted ==
    [][/\ DOMAIN messages' = 1..(nextMessageId' - 1)
       /\ \A id \in DOMAIN messages' : messages'[id].id = id
       /\ Len(eventLog') = nextMessageId' - 1
       /\ \A k \in DOMAIN eventLog' : eventLog'[k].id = k
       /\ (IsSend /\ receipt'.status = "ok")
            => /\ nextMessageId' = nextMessageId + 1
               /\ receipt'.logs[1].id = nextMessageId
       /\ (IsSend /\ receipt'.status # "ok") => nextMessageId' = nextMessageId]_vars

\* A call was rejected on a ledger that holds a message of each sender, the
\* second sender's first message with id 2.
C12_Witness ==
    /\ receipt.op = "sendMessage" /\ receipt.status # "ok"
    /\ nextMessageId = 3
    /\ messages[1].sender # messages[2].sender
    /\ messages[2].nonce = 1

-----------------------------------------------------------------------------
(* C13 *)

\* C13: a committed MessageMeta never changes and is never deleted, whatever
\* is called later (sendMessage, registerRSAPublicKey, setMinInterval).
C13_MessagesImmutable ==
    [][\A id \in DOMAIN messages :
         id \in DOMAIN messages' /\ messages'[id] = messages[id]]_vars

\* Two messages of different senders are committed, the interval has been
\* changed, and a key has just been registered.
C13_Witness ==
    /\ receipt.op = "registerRSAPublicKey"
    /\ nextMessageId = 3
    /\ messages[1].sender # messages[2].sender
    /\ minIntervalSeconds # DefaultMinInterval

-----------------------------------------------------------------------------
(* C14 *)

\* Some accepted message has the triple.
TripleOfSomeMessage(s, r, iv) ==
    \E id \in DOMAIN messages :
        messages[id].sender = s /\ messages[id].recipient = r /\ messages[id].iv = iv

\* C14: isIVUsed(sender, recipient, iv) is true exactly when some accepted
\* message has that sender, recipient and iv, and once true it stays true.
C14_UsedIsTerminal ==
    [][\A s \in Users : \A r \in Users : \A iv \in IVs :
         /\ isIVUsed(Storage, s, r, iv)' <=> TripleOfSomeMessage(s, r, iv)'
         /\ isIVUsed(Storage, s, r, iv) => isIVUsed(Storage, s, r, iv)']_vars

\* A call with an unused triple passed the IV check and was rejected for its
\* nonce: its triple is still unused, while another triple is used.
C14_Witness ==
    /\ receipt.op = "sendMessage" /\ receipt.status = "bad nonce"
    /\ ~isIVUsed(Storage, receipt.from, receipt.args.recipient, receipt.args.iv)
    /\ \E iv \in IVs : isIVUsed(Storage, receipt.from, receipt.args.recipient, iv)

-----------------------------------------------------------------------------
(* C15 *)

\* C15: an accepted sendMessage stores a MessageMeta and emits exactly one
\* MessageSent with the same fields: the sender is the caller; recipient,
\* digest, iv and nonce are the submitted ones; the locator commitments are
\* the hashes of the submitted locators; the timestamp is the block time.
C15_MetaAndEventAgree ==
    [][(IsSend /\ receipt'.status = "ok")
        => LET id == nextMessageId
               a == receipt'.args
               m == messages'[id]
               e == receipt'.logs[1]
           IN  /\ id \in DOMAIN messages' /\ id \notin DOMAIN messages
               /\ Len(receipt'.logs) = 1 /\ e.name = "MessageSent"
               /\ eventLog' = Append(eventLog, e)
               /\ m.id = id /\ e.id = id
               /\ m.sender = receipt'.from /\ e.sender = receipt'.from
               /\ m.recipient = a.recipient /\ e.recipient = a.recipient
               /\ m.sha256Hash = a.sha256Hash /\ e.sha256Hash = a.sha256Hash
               /\ m.iv = a.iv /\ e.iv = a.iv
               /\ m.nonce = a.nonce /\ e.nonce = a.nonce
               /\ m.contentCidHash = <<"keccak256", a.contentCID>>
               /\ e.contentCidHash = <<"keccak256", a.contentCID>>
               /\ m.keyCidHash = <<"keccak256", a.keyCID>>
               /\ e.keyCidHash = <<"keccak256", a.keyCID>>
               /\ m.timestamp = blockTimestamp /\ e.timestamp = blockTimestamp]_vars

\* A signed call was accepted in a block after the first one.
C15_Witness ==
    /\ receipt.op = "sendMessage" /\ receipt.status = "ok"
    /\ Signed(receipt.args)
    /\ receipt.at > GenesisTime
    /\ Len(receipt.logs) = 1 /\ receipt.logs[1].timestamp = receipt.at

-----------------------------------------------------------------------------
(* C16 *)

\* The step is a registerRSAPublicKey transaction of receipt'.from.
IsRegister == receipt.op = "none" /\ receipt'.op = "registerRSAPublicKey"

\* C16: registerRSAPublicKey replaces the whole KeyRecord of the caller by
\* the new digest, the new locator and the block time, emits KeyRegistered,
\* and changes nobody else's record; a record changes only in a
\* registerRSAPublicKey call of its owner.
C16_OwnRecordOverwritten ==
    [][/\ IsRegister
            => LET me == receipt'.from
                   digest == receipt'.args[1]
                   uri == receipt'.args[2]
               IN  /\ receipt'.status = "ok"
                   /\ keyRegistry'[me] = [rsaPubKeySha256 |-> digest, rsaPubKeyURI |-> uri,
                                          updatedAt |-> blockTimestamp]
                   /\ \A u \in Users \ {me} : keyRegistry'[u] = keyRegistry[u]
                   /\ receipt'.logs = <<[name |-> "KeyRegistered", owner |-> me,
                                         rsaPubKeySha256 |-> digest, rsaPubKeyURI |-> uri,
                                         updatedAt |-> blockTimestamp]>>
       /\ \A u \in Users :
            keyRegistry'[u] # keyRegistry[u] => (IsRegister /\ receipt'.from = u)]_vars

\* An identity registered again, in a later block, with an empty locator,
\* while the other identity holds a record with a locator.
C16_Witness ==
    /\ receipt.op = "registerRSAPublicKey"
    /\ receipt.at > GenesisTime
    /\ keyRegistry[receipt.from].rsaPubKeyURI = ""
    /\ \E u \in Users \ {receipt.from} :
         /\ keyRegistry[u].rsaPubKeyURI # ""
         /\ keyRegistry[u].updatedAt = GenesisTime

-----------------------------------------------------------------------------
(* C17 *)

\* C17 as stated: a registration with an all-zero digest is rejected and
\* leaves the KeyRecord of the caller unchanged, and every registration with
\* a non-zero digest succeeds whatever the locator.
C17_EmptyDigestRejected ==
    [][IsRegister
        => /\ receipt'.args[1] = ZeroHash
                => (receipt'.status # "ok" /\ UNCHANGED keyRegistry)
           /\ receipt'.args[1] # ZeroHash => receipt'.status = "ok"]_vars

\* A registration with an all-zero digest succeeded and is the caller's record.
C17_Witness ==
    /\ receipt.op = "registerRSAPublicKey" /\ receipt.status = "ok"
    /\ receipt.args[1] = ZeroHash
    /\ keyRegistry[receipt.from].rsaPubKeySha256 = ZeroHash
    /\ keyRegistry[receipt.from].updatedAt = receipt.at

-----------------------------------------------------------------------------
(* C18 *)

\* The step is an onSend of me that ended with "Sent!".
IsSent(me) == nextMessageId' = nextMessageId + 1 /\ sendPage'[me].status.text = "Sent!"

\* The key pair the key envelope under keyCID was wrapped for.
WrappedFor(ls, keyCID) == JSONparse(ls[keyCID]).encrypted_key_b64.b64.rsa

\* C18 as stated: for any non-empty plaintext and any valid key pair of the
\* recipient, the decrypt path of the Inbox, run with the matching private key
\* on what Send produced (content envelope, key envelope, digest on the
\* ledger), gives back exactly the plaintext that was typed.
C18_RoundTripExact ==
    [][\A me \in Writers :
         (IsSent(me) /\ sendPage'[me].status.keyCID # NoKeyCID)
            => LET e == eventLog'[Len(eventLog')]
                   kp == WrappedFor(localStorage', sendPage'[me].status.keyCID)
                   ls == setItem(localStorage', "rsa:priv:" \o e.recipient,
                                 JSONstringify(PrivateJwk(kp)))
               IN  tryDecrypt(ls, e.recipient, BaseItem(e)).plaintext
                       = sendPage'[me].message]_vars

\* The Inbox shows a decrypted message whose text is U+FFFD, which nobody typed.
C18_Witness ==
    /\ tab = "inbox"
    /\ \E me \in Readers : \E k \in DOMAIN items[me] :
         /\ items[me][k].plaintext = <<"FFFD">>
         /\ items[me][k].note = NoNote

-----------------------------------------------------------------------------
(* C19 *)

\* The step mounts the Inbox page: items' holds the outcome of every message.
IsLoad == tab # "inbox" /\ tab' = "inbox"

\* The correlation record of the message id, and the envelopes it names.
MsgMap(id) == JSONparse(localStorage["msgmap:" \o ToString(id)])
StoredContent(id) == JSONparse(localStorage[MsgMap(id).contentCID])

\* The stored ciphertext of the message is not the one Send put.
CiphertextAltered(id) ==
    \/ ~StoredContent(id).ciphertext_b64.valid
    \/ ~Intact(StoredContent(id).ciphertext_b64.b64)

\* The steps before the ciphertext is read succeed for me: the private key
\* is imported, the key envelope exists and was wrapped for that key.
Unwraps(me, id) ==
    /\ ("rsa:priv:" \o me) \in DOMAIN localStorage
    /\ MsgMap(id).keyCID \in DOMAIN localStorage
    /\ WrappedFor(localStorage, MsgMap(id).keyCID)
         = JSONparse(localStorage["rsa:priv:" \o me]).kp

\* The notes that stand for IntegrityMismatch and AuthenticationFailed.
IntegrityOrAuthNotes ==
    {NoteIntegrityMismatch, "The operation failed for an operation-specific reason"}

\* C19 as stated: when the stored ciphertext of an accepted message has been
\* altered before the recipient decrypts it (the recipient holds the private
\* key the data key was wrapped for), the decrypt path ends in
\* IntegrityMismatch or AuthenticationFailed, and never in a plaintext.
C19_TamperAlwaysIntegrityOrAuth ==
    [][IsLoad
        => \A me \in Readers : \A k \in DOMAIN items'[me] :
             (CiphertextAltered(items'[me][k].id) /\ Unwraps(me, items'[me][k].id))
                => /\ items'[me][k].note \in IntegrityOrAuthNotes
                   /\ items'[me][k].plaintext = Undefined]_vars

\* What does hold of C19: an altered ciphertext never ends in a plaintext and
\* the cipher is never opened on it; the outcome is a note, which is the
\* integrity mismatch whenever the stored text still decodes as base64.
C19_TamperNeverDecrypts ==
    [][IsLoad
        => \A me \in Readers : \A k \in DOMAIN items'[me] :
             CiphertextAltered(items'[me][k].id)
                => /\ (Unwraps(me, items'[me][k].id)
                        /\ StoredContent(items'[me][k].id).ciphertext_b64.valid)
                       => items'[me][k].note = NoteIntegrityMismatch
                   /\ items'[me][k].note # NoNote
                   /\ items'[me][k].plaintext = Undefined
                   /\ \A c \in DOMAIN items'[me][k].calls :
                        items'[me][k].calls[c] # "aesDecrypt"]_vars

\* The stored ciphertext was altered into text that is not base64, the
\* recipient holds the right private key, and the Inbox shows the message
\* with the error of the base64 decoder as its note.
C19_Witness ==
    /\ tab = "inbox"
    /\ \E me \in Readers : \E k \in DOMAIN items[me] :
         /\ ~StoredContent(items[me][k].id).ciphertext_b64.valid
         /\ Unwraps(me, items[me][k].id)
         /\ items[me][k].note = "The string to be decoded is not correctly encoded."
         /\ items[me][k].plaintext = Undefined

-----------------------------------------------------------------------------
(* C20 *)

\* The SHA-256 of the ciphertext fetched for the message is the digest the
\* ledger holds for its id.
DigestMatches(id) ==
    SHA256(StoredContent(id).ciphertext_b64.b64) = messages[id].sha256Hash

\* C20: in every outcome of the Inbox a message carries a plaintext only if
\* the SHA-256 of the fetched ciphertext equals the digest on the ledger; the
\* comparison comes before the cipher is opened: when the digests differ the
\* cipher is never opened, and the comparison, once reached, is reported as
\* an integrity mismatch.
C20_DigestBeforeOpen ==
    [][IsLoad
        => \A me \in Readers : \A k \in DOMAIN items'[me] :
             LET it == items'[me][k]
                 opened == \E c \in DOMAIN it.calls : it.calls[c] = "aesDecrypt"
                 compared == \E c \in DOMAIN it.calls : it.calls[c] = "sha256Bytes"
             IN  /\ it.plaintext # Undefined
                    => (opened /\ StoredContent(it.id).ciphertext_b64.valid
                        /\ DigestMatches(it.id))
                 /\ opened
                    => (compared /\ DigestMatches(it.id)
                        /\ it.calls[Len(it.calls)] = "aesDecrypt")
                 /\ (compared /\ ~DigestMatches(it.id))
                    => (it.note = NoteIntegrityMismatch /\ ~opened
                        /\ it.plaintext = Undefined)]_vars

\* The iv next to an untouched ciphertext was altered: the digests agreed,
\* the cipher was opened after the comparison and refused the message.
C20_Witness ==
    /\ tab = "inbox"
    /\ \E me \in Readers : \E k \in DOMAIN items[me] :
         /\ DigestMatches(items[me][k].id)
         /\ items[me][k].calls = <<"rsaOaepDecrypt", "sha256Bytes", "aesDecrypt">>
         /\ items[me][k].note = "The operation failed for an operation-specific reason"
         /\ items[me][k].plaintext = Undefined

-----------------------------------------------------------------------------
(* C21 *)

\* The message id was sent without a key envelope: its correlation record
\* holds the sentinel as key locator.
SentWithoutKey(id) == MsgMap(id).keyCID = NoKeyCID

\* C21 as stated: for a message sent without a key envelope the decrypt path
\* of a recipient who holds a private key ends in the "no encrypted data key"
\* note, before any unwrap, digest or cipher step, and in no other failure.
C21_NoKeyEndsNoKeyMaterial ==
    [][IsLoad
        => \A me \in Readers : \A k \in DOMAIN items'[me] :
             (SentWithoutKey(items'[me][k].id)
              /\ ("rsa:priv:" \o me) \in DOMAIN localStorage)
                => /\ items'[me][k].note = NoteNoDataKey
                   /\ items'[me][k].calls = <<>>]_vars

\* The Inbox of a recipient who holds a private key shows a message sent
\* without a key envelope with the "not found" error of the content store.
C21_Witness ==
    /\ tab = "inbox"
    /\ \E me \in Readers : \E k \in DOMAIN items[me] :
         /\ SentWithoutKey(items[me][k].id)
         /\ ("rsa:priv:" \o me) \in DOMAIN localStorage
         /\ items[me][k].note = "local URI not found in this browser: " \o NoKeyCID
         /\ items[me][k].calls = <<>>
         /\ items[me][k].plaintext = Undefined

-----------------------------------------------------------------------------
(* C22 *)

\* The ids of the MessageSent logs addressed to me.
IdsFor(me) == {eventLog[i].id : i \in {j \in DOMAIN eventLog : eventLog[j].recipient = me}}

\* The ids of the items of a sequence, and whether no id is there twice.
ItemIds(seq) == {seq[k].id : k \in DOMAIN seq}
OneItemPerId(seq) == Cardinality(ItemIds(seq)) = Len(seq)

\* The item carries either a plaintext or a note, not both and not neither.
PlaintextOrNote(it) == (it.plaintext # Undefined) # (it.note # NoNote)

\* The step ends the initial load of the Inbox: setItems(enriched).
IsLoaded == inbox.pc # "live" /\ inbox'.pc = "live"

-----------------------------------------------------------------------------
(* C23 *)

\* The Inbox page of the reader is mounted and shows an item of the id.
Shown(id) == \E me \in Readers : id \in ItemIds(items[me])

\* C23 as stated: every message the ledger accepted for the recipient,
\* before, during or after the initial load, eventually appears in the inbox
\* view of the recipient while the view stays mounted.
C23_EveryEntryAppears ==
    \A id \in 1..InboxMessages :
        [](( tab = "inbox" /\ id \in IdsFor(inbox.me))
              => <>(Shown(id) \/ tab # "inbox"))

\* The log at position i is addressed to the recipient and was either among
\* the logs queried or mined after the handler was subscribed.
QueriedOrSubscribed(i) ==
    /\ tab = "inbox"
    /\ i \in DOMAIN eventLog
    /\ eventLog[i].recipient = inbox.me
    /\ (eventLog[i].id \in ItemIds(inbox.base) \/ (inbox.pc = "live" /\ i > inbox.from))

\* What does hold of C23: the messages accepted before the query of the
\* past logs and the messages accepted after the subscription of the
\* handler eventually appear while the view stays mounted.
C23_QueriedOrSubscribedAppears ==
    \A i \in 1..InboxMessages :
        [](QueriedOrSubscribed(i)
              => <>((i \in DOMAIN eventLog /\ Shown(eventLog[i].id)) \/ tab # "inbox"))

\* The load has ended and the handler is subscribed, and a message to the
\* recipient is neither among the logs queried nor in a block mined after
\* the subscription: it was accepted while the items were being decrypted.
C23_Witness ==
    /\ inbox.pc = "live"
    /\ \E i \in DOMAIN eventLog :
         /\ eventLog[i].recipient = inbox.me
         /\ i <= inbox.from
         /\ eventLog[i].id \notin ItemIds(inbox.base)
         /\ ~Shown(eventLog[i].id)

-----------------------------------------------------------------------------
(* C24 *)

\* C24 as stated: the handling of notifications is idempotent: when the
\* MessageSent notification of an id the handler has already been passed is
\* passed to it again, the inbox view stays as it is, and the view never
\* holds more than one item of a message id.
C24_DuplicateNotificationIgnored ==
    [][/\ \A id \in DOMAIN deliveries :
            (id \in DOMAIN deliveries' /\ deliveries'[id] > deliveries[id]) => items' = items
       /\ \A me \in Readers : OneItemPerId(items'[me])]_vars

\* The handler was passed the notification of one id twice and the view
\* holds two items of that id.
C24_Witness ==
    /\ inbox.pc = "live"
    /\ \E id \in DOMAIN deliveries :
         /\ deliveries[id] = 2
         /\ Cardinality({k \in DOMAIN items[inbox.me] : items[inbox.me][k].id = id}) = 2

-----------------------------------------------------------------------------
(* C26 *)

\* The used-IV entries of the sender s.
UsedBy(used, s) == {t \in used : t[1] = s}

\* What the ledger answers to the submission b of s in a block stamped t:
\* the failure kind, or that it is accepted.
Verdict(S, s, t, b) == FailureKind(sendMessage(S, s, t, SendArgs(b, ZeroSig)).status)

\* C26: a sendMessage of a sender A, accepted or not, changes neither
\* lastNonce, lastSentAt, the used-IV entries nor the outbox of any other
\* sender B, and the answer of the ledger to any submission of B, in any
\* later block, is the same after A's call as before it; when B's
\* submission is accepted, only the id it gets counts A's messages.
C26_SendersIndependent ==
    [][IsSend
        => \A B \in Senders \ {receipt'.from} :
             /\ lastNonce'[B] = lastNonce[B]
             /\ lastSentAt'[B] = lastSentAt[B]
             /\ UsedBy(usedIV', B) = UsedBy(usedIV, B)
             /\ getOutboxIds(Storage, B)' = getOutboxIds(Storage, B)
             /\ \A b \in LongRunFields(B) : \A t \in LongRunTimes :
                  t >= blockTimestamp
                     => /\ Verdict(Storage', B, t, b) = Verdict(Storage, B, t, b)
                        /\ Verdict(Storage, B, t, b) = "Accepted"
                              => sendMessage(Storage', B, t, SendArgs(b, ZeroSig)).logs[1].id
                                   = nextMessageId']_vars

\* alice's message to bob with iv1 has been accepted, bob has sent nothing,
\* and bob's message to alice with the same iv1 would be accepted, with the
\* id after alice's.
C26_Witness ==
    /\ receipt.op = "sendMessage" /\ receipt.status = "ok" /\ receipt.from = "alice"
    /\ receipt.args.recipient = "bob" /\ receipt.args.iv = "iv1"
    /\ lastNonce["bob"] = 0
    /\ nextMessageId = 2
    /\ LET r == sendMessage(Storage, "bob", blockTimestamp,
                            SendArgs([recipient |-> "alice", contentCID |-> "ipfs://content",
                                      keyCID |-> "ipfs://key", sha256Hash |-> "sha1",
                                      iv |-> "iv1", nonce |-> 1], ZeroSig))
       IN  r.status = "ok" /\ r.logs[1].id = 2

-----------------------------------------------------------------------------
(* C30 *)

\* The ids of the accepted messages whose sender is s.
SentBy(s) == {id \in DOMAIN messages : messages[id].sender = s}

\* C30: in every reachable state of the ledger and for every sender s,
\* lastNonce[s] is the length of the outbox index of s, which is the number
\* of accepted messages whose sender is s, and lastSentAt[s] is the
\* timestamp of the last message of the outbox of s, and 0 while the outbox
\* is empty.
C30_NonceOutboxAndTimeAgree ==
    \A s \in Senders :
        LET outbox == getOutboxIds(Storage, s) IN
        /\ lastNonce[s] = Len(outbox)
        /\ Len(outbox) = Cardinality(SentBy(s))
        /\ lastSentAt[s] = IF outbox = <<>> THEN 0
                           ELSE messages[outbox[Len(outbox)]].timestamp

\* Both senders have messages accepted, alice two of them in different
\* blocks, and a call of alice has just been rejected.
C30_Witness ==
    /\ lastNonce["alice"] = 2 /\ lastNonce["bob"] = 1
    /\ messages[outboxIndex["alice"][1]].timestamp < lastSentAt["alice"]
    /\ receipt.op = "sendMessage" /\ receipt.from = "alice" /\ receipt.status # "ok"

-----------------------------------------------------------------------------
(* C25 *)

\* The runs of the two windows are runs of one sender that read the same
\* lastNonce: both are about to submit, or have submitted, the same nonce.
SameRead(r1, r2) ==
    /\ r1.pc # "idle" /\ r2.pc # "idle"
    /\ r1.me = r2.me
    /\ r1.args.nonce = r2.args.nonce

\* The transaction of the run was mined and accepted.
RunAccepted(r) == r.tx = "mined" /\ r.result.status = "ok"

\* The transaction of the run was mined and rejected.
RunRejected(r) == r.tx = "mined" /\ r.result.status # "ok"

\* C25: when two runs of onSend of one sender have read the same lastNonce,
\* the ledger accepts at most one of them; the step that rejects a
\* submission leaves the ledger as it was; and the nonces of the accepted
\* messages of every sender are 1, 2, 3, ... in the order of the outbox.
C25_SameNonceAtMostOneAccepted ==
    [][/\ \A w1, w2 \in Windows :
            (w1 # w2 /\ SameRead(runs'[w1], runs'[w2]))
               => ~(RunAccepted(runs'[w1]) /\ RunAccepted(runs'[w2]))
       /\ \A w \in Windows :
            (runs[w].tx = "pending" /\ RunRejected(runs'[w])) => UNCHANGED ledgerVars
       /\ \A s \in Senders : \A k \in DOMAIN outboxIndex'[s] :
            messages'[outboxIndex'[s][k]].nonce = k]_vars

\* Both windows read lastNonce = 0 before either submitted; both
\* transactions were sent, the first one mined was accepted and the other,
\* mined after the rate limit had passed, was rejected for its nonce.
C25_Witness ==
    \E w1, w2 \in Windows :
        /\ w1 # w2
        /\ SameRead(runs[w1], runs[w2])
        /\ runs[w1].submits = 1 /\ runs[w2].submits = 1
        /\ RunAccepted(runs[w1])
        /\ RunRejected(runs[w2]) /\ runs[w2].result.status = "bad nonce"
        /\ lastNonce[runs[w1].me] = 1

-----------------------------------------------------------------------------
(* C27 *)

\* The windows whose run of onSend by s had its transaction accepted.
AcceptedRuns(s) == {w \in Windows : runs[w].me = s /\ RunAccepted(runs[w])}

\* The run ended in the catch of line 87.
RunFailed(r) == r.pc = "done" /\ r.status.text # "Sent!"

\* C27: one run of onSend calls contract.sendMessage at most once. A run
\* that has ended, in "Sent!" or in the catch after a rejection or after a
\* tx.wait() that threw, never submits again; its transaction is mined at
\* most once; a run whose submission the ledger rejected ends in the catch
\* with "Send failed: " and the reason; and every nonce a sender has
\* consumed belongs to a different run of that sender.
C27_AtMostOneSubmit ==
    [][/\ \A w \in Windows :
            /\ runs'[w].submits <= 1
            /\ runs[w].pc = "done" => /\ runs'[w].pc = "done"
                                      /\ runs'[w].submits = runs[w].submits
                                      /\ runs'[w].tx \in {runs[w].tx, "mined"}
            /\ runs[w].tx = "mined" => /\ runs'[w].tx = "mined"
                                       /\ runs'[w].result = runs[w].result
            /\ (runs[w].pc # "done" /\ runs'[w].pc = "done" /\ ~RunAccepted(runs[w]))
                  => /\ RunFailed(runs'[w])
                     /\ runs[w].pc = "wait" /\ RunRejected(runs[w])
                           => runs'[w].status.text \in
                                  {"Send failed: " \o runs[w].result.status,
                                   "Send failed: timeout"}
       /\ \A s \in Senders : lastNonce'[s] = Cardinality(AcceptedRuns(s)')]_vars

\* tx.wait() threw in one window although the ledger accepted the message,
\* the ledger rejected the submission of the other window, and the sender
\* has consumed one nonce.
C27_Witness ==
    \E w1, w2 \in Windows :
        /\ runs[w1].me = runs[w2].me
        /\ RunFailed(runs[w1]) /\ runs[w1].status.text = "Send failed: timeout"
        /\ RunAccepted(runs[w1]) /\ runs[w1].submits = 1
        /\ RunFailed(runs[w2]) /\ runs[w2].tx = "none" /\ runs[w2].submits = 1
        /\ lastNonce[runs[w1].me] = 1

-----------------------------------------------------------------------------
(* C28 *)

\* The ids a run of onSend in one of the windows can read from a receipt.
RunIds == 1..(Cardinality(Windows) + 1)

\* The ids under which the localStorage ls holds a correlation record.
RecordedIds(ls) == {id \in RunIds : ("msgmap:" \o ToString(id)) \in DOMAIN ls}

\* The correlation record of id in ls.
RecordOf(ls, id) == JSONparse(ls["msgmap:" \o ToString(id)])

\* The correlation record of id in ls holds the locators whose hashes the
\* ledger stored in the MessageMeta of id.
RecordMatchesLedger(ls, metas, id) ==
    /\ id \in DOMAIN metas
    /\ keccak256(RecordOf(ls, id).contentCID) = metas[id].contentCidHash
    /\ keccak256(RecordOf(ls, id).keyCID) = metas[id].keyCidHash

\* C28: when a run of onSend ends with "Sent!", localStorage holds the
\* record "msgmap:<id>" for the id of its MessageSent log, with the
\* contentCID and the keyCID of the run, and their keccak256 hashes are the
\* contentCidHash and the keyCidHash the ledger stored under that id. Every
\* record is the record of an accepted message, and a run that ends in the
\* catch writes no record.
C28_SuccessLeavesMatchingRecord ==
    [][/\ \A w \in Windows :
            /\ (runs'[w].pc = "done" /\ runs'[w].status.text = "Sent!")
                  => /\ RunAccepted(runs'[w])
                     /\ runs'[w].result.id \in RecordedIds(localStorage')
                     /\ RecordOf(localStorage', runs'[w].result.id)
                           = [contentCID |-> runs'[w].contentCID,
                              keyCID |-> runs'[w].keyCID]
                     /\ RecordMatchesLedger(localStorage', messages', runs'[w].result.id)
            /\ (runs[w].pc # "done" /\ RunFailed(runs'[w]))
                  => /\ RecordedIds(localStorage') = RecordedIds(localStorage)
                     /\ \A id \in RecordedIds(localStorage) :
                            RecordOf(localStorage', id) = RecordOf(localStorage, id)
       /\ \A id \in RecordedIds(localStorage') :
            RecordMatchesLedger(localStorage', messages', id)]_vars

\* One run ended with "Sent!" and its record, with the locator of a key
\* envelope, matches the ledger; the run of the other window was mined and
\* rejected, and left no record.
C28_Witness ==
    \E w1, w2 \in Windows :
        /\ runs[w1].pc = "done" /\ runs[w1].status.text = "Sent!"
        /\ RecordedIds(localStorage) = {runs[w1].result.id}
        /\ RecordMatchesLedger(localStorage, messages, runs[w1].result.id)
        /\ RecordOf(localStorage, runs[w1].result.id).keyCID # NoKeyCID
        /\ RunFailed(runs[w2]) /\ RunRejected(runs[w2])
        /\ runs[w2].status.text = "Send failed: " \o runs[w2].result.status

-----------------------------------------------------------------------------
(* C29 *)

\* The recipient has a registered rsaPubKeyURI that ipfsGetJson finds in
\* the localStorage ls and importRsaPublicKeyJwk accepts.
KeyAvailable(S, ls, recipient) ==
    LET uri == S.keyRegistry[recipient].rsaPubKeyURI IN
    /\ uri # "" /\ uri # NoKeyCID
    /\ ipfsGetJson(ls, uri).ok
    /\ importRsaPublicKeyJwk(ipfsGetJson(ls, uri).value).ok

\* The step is the click on Send in window w.
Started(w) == runs[w].pc = "idle" /\ runs'[w].pc = "read"

\* The outcome of sendMessage for the arguments of the run r with the key
\* locator k, on the ledger S at the time nowTs.
VerdictWithKey(S, nowTs, r, k) ==
    sendMessage(S, r.me, nowTs, [r.args EXCEPT !.keyCID = k]).status

\* C29: when the recipient has no KeyRecord, or the registered key cannot
\* be fetched or imported, onSend goes on: it puts the content envelope and
\* nothing else, and passes "local://no-key" as keyCID; when the ledger
\* accepts the message its keyCidHash is keccak256("local://no-key"); and
\* sendMessage accepts or rejects the arguments of a run with the same
\* reason whatever the key locator is.
C29_NoKeySendsSentinel ==
    [][\A w \in Windows :
         /\ (Started(w) /\ ~KeyAvailable(Storage, localStorage, runs'[w].args.recipient))
               => /\ runs'[w].keyCID = NoKeyCID
                  /\ runs'[w].args.keyCID = NoKeyCID
                  /\ Blobs(localStorage') \ Blobs(localStorage) = {runs'[w].contentCID}
                  /\ "algo" \in DOMAIN JSONparse(localStorage'[runs'[w].contentCID])
                  /\ \A u \in Blobs(localStorage) : localStorage'[u] = localStorage[u]
         /\ (runs[w].tx = "pending" /\ RunAccepted(runs'[w]) /\ runs[w].keyCID = NoKeyCID)
               => messages'[runs'[w].result.id].keyCidHash = keccak256(NoKeyCID)
         /\ runs'[w].pc # "idle"
               => \A k \in LocalURIs :
                    VerdictWithKey(Storage', blockTimestamp', runs'[w], k)
                       = VerdictWithKey(Storage', blockTimestamp', runs'[w], NoKeyCID)]_vars

\* bob registered a key, alice sent with a key envelope, bob then registered
\* a URI that is not in this browser and alice sent again: both messages
\* were accepted, the second one with the hash of "local://no-key".
C29_Witness ==
    \E w1, w2 \in Windows :
        /\ RunAccepted(runs[w1]) /\ runs[w1].keyCID = "local://2"
        /\ runs[w1].contentCID = "local://3"
        /\ RunAccepted(runs[w2]) /\ runs[w2].keyCID = NoKeyCID
        /\ runs[w2].contentCID = "local://4"
        /\ keyRegistry[runs[w2].args.recipient].rsaPubKeyURI = "local://key1"
        /\ messages[runs[w2].result.id].keyCidHash = keccak256(NoKeyCID)
        /\ messages[runs[w1].result.id].keyCidHash = keccak256("local://2")

-----------------------------------------------------------------------------
(* C31 *)

\* The step is a setMinInterval transaction: its sender is receipt'.from and
\* its argument is receipt'.args[1].
IsSetInterval == receipt.op = "none" /\ receipt'.op = "setMinInterval"

\* Everything the contract stores except minIntervalSeconds, and the log of
\* MessageSent events.
AllButInterval ==
    <<nextMessageId, messages, inboxIndex, outboxIndex, lastNonce, lastSentAt, usedIV,
      keyRegistry, eventLog>>

\* C31: setMinInterval succeeds for every caller and every value, sets
\* minIntervalSeconds to its argument, and leaves the messages, the
\* indices, lastNonce, lastSentAt, usedIV and keyRegistry as they were.
\* From then on sendMessage of any sender at any block time is rejected as
\* rate-limited exactly when the time since that sender's last message is
\* less than the new value; and every sendMessage transaction is
\* rate-limited exactly when the time since the sender's last message is
\* less than minIntervalSeconds as it is when the transaction is mined.
C31_IntervalInForceApplies ==
    [][/\ IsSetInterval
            => /\ receipt'.status = "ok"
               /\ minIntervalSeconds' = receipt'.args[1]
               /\ UNCHANGED AllButInterval
               /\ \A s \in Senders : \A t \in RegistryTimes : \A b \in RegistryFields(s)' :
                     t >= blockTimestamp
                        => (sendMessage(Storage', s, t, SendArgs(b, ZeroSig)).status
                                = "rate-limited"
                              <=> t - lastSentAt[s] < receipt'.args[1])
       /\ \A v \in IntervalValues :
            /\ setMinInterval(Storage, v).status = "ok"
            /\ setMinInterval(Storage, v).storage.minIntervalSeconds = v
       /\ IsSend => (receipt'.status = "rate-limited" <=> TooSoon(receipt'.from))]_vars

\* alice's message was accepted in this block, bob, who has a key
\* registered, has just changed the interval to 0, and alice's next
\* message, rate-limited until then, is accepted in the same block.
C31_Witness ==
    /\ receipt.op = "setMinInterval" /\ receipt.from = "bob" /\ receipt.args = <<0>>
    /\ nextMessageId = 2 /\ messages[1].sender = "alice"
    /\ lastSentAt["alice"] = blockTimestamp
    /\ keyRegistry["bob"] # ZeroKeyRecord
    /\ \E b \in RegistryFields("alice") :
          sendMessage(Storage, "alice", blockTimestamp, SendArgs(b, ZeroSig)).status = "ok"

-----------------------------------------------------------------------------
(* C32 *)

\* The cleanup of the effect has run: the Inbox page it belongs to is gone.
TornDown(run) == run.pc # "idle" /\ ~run.alive

\* The handler of the effect is subscribed to MessageSent.
Subscribed(run) == run.pc = "live"

\* C32: once the cleanup of the effect of an Inbox page has run, whether the
\* async function was then waiting for the wallet, for the past logs, for a
\* tryDecrypt of the loop, or had subscribed its handler, and whether or not
\* calls of the handler were waiting for tryDecrypt: the handler is not
\* subscribed and is never subscribed later, it is passed no further log,
\* and neither the async function nor a waiting call of the handler sets
\* the items of the page again.
C32_TornDownStaysSilent ==
    [][/\ TornDown(inbox') => ~Subscribed(inbox')
       /\ (TornDown(inbox) /\ TornDown(inbox'))
             => /\ items' = items
                /\ deliveries' = deliveries
                /\ Len(inbox'.pending) <= Len(inbox.pending)
       /\ (inbox.alive /\ TornDown(inbox'))
             => items' = [u \in Users |-> <<>>]]_vars

\* The page was unmounted before the loop of line 110 was through: the
\* loop finished its tryDecrypt and the function returned at line 112,
\* without items and without a subscription, although another message to
\* the same address was accepted after the logs were queried.
C32_Witness ==
    /\ TornDown(inbox) /\ inbox.pc = "ended"
    /\ Len(inbox.base) = 1 /\ Len(inbox.enriched) = 1
    /\ Len(preloadFromLogs(eventLog, inbox.me)) = 2
    /\ items = [u \in Users |-> <<>>]
    /\ tab = "register"

=============================================================================
